---- MODULE Spec2Model ----
(***************************************************************************)
(* A model of the orchestration core of the AI agent framework:           *)
(*   - the DAG workflow engine (src/src/core/workflow_base.py): Spec,      *)
(*   - the hierarchical state machine executor                             *)
(*     (src/src/orchestrator/state_machine.py): SMSpec,                    *)
(*   - the in-process message broker, the worker that consumes the run    *)
(*     requests and the adapters that publish them                         *)
(*     (src/src/messaging/kafka_client.py,                                 *)
(*      src/src/orchestrator/kafka_worker.py,                              *)
(*      src/django_app/workflows/adapters.py): MsgSpec.                    *)
(* Every subsystem has its own specification over its own variables; the   *)
(* variables of the other subsystems stay at their initial value.          *)
(***************************************************************************)
EXTENDS Integers, Sequences, FiniteSets, TLC

(***************************************************************************)
(* Bounds of the model.                                                    *)
(***************************************************************************)
\* most steps in a workflow definition (step ids are 1..MaxSteps)
MaxSteps == 3
\* most dependency entries in a whole workflow definition
MaxDepEntries == 3
\* most calls of execute() on one engine
MaxRuns == 1
\* most events sent to one state machine
MaxEvents == 4
\* most run requests made, by producers and through the adapters
MaxRequests == 2

\* calls made on one execution context
MaxCtxCalls == 2

\* WorkflowRun records and calls of execute_workflow_run
MaxRunRecords == 2
MaxExecutions == 2

VARIABLES
    \* ---- workflow engine ----
    steps,              \* WorkflowDefinition.steps: sequence of [id, deps]
    pc,                 \* where the client / the running execute() stands
    status,             \* WorkflowBase.status
    execution_history,  \* WorkflowBase.execution_history
    input_data,         \* the input_data given to execute()
    execution_order,    \* the batches computed by _build_execution_order
    batchIdx,           \* index of the batch the for loop of _execute_workflow is at
    stepIdx,            \* index of the next task awaited in _execute_step_batch
    batch_results,      \* results of _execute_step_batch: sequence of [id, out]
    step_outputs,       \* step_outputs of _execute_workflow: id -> output
    current_data,       \* current_data of _execute_workflow
    errors,             \* ExecutionContext.errors of the run's context
    returned,           \* what the last call of execute() returned
    calls,              \* number of calls of execute() so far
    stepLog,            \* history: the steps started in this run, in order
    cancelledIn,        \* history: batch in flight when cancel_execution() succeeded
    \* ---- state machine executor ----
    definition,         \* AdvancedStateMachine.definition
    current_states,     \* StateMachineContext.current_states
    running_activities, \* keys of AdvancedStateMachine._running_activities
    detached_activities,\* states with a do-activity task that is neither in
                        \* _running_activities any more nor cancelled nor over
    sm_history,         \* StateMachineContext.history: names of the events sent
    lastOp,             \* history: the last call on the machine, with its trace
    \* ---- messaging: in-process broker, worker, scheduling adapters ----
    queues,             \* InMemoryBroker._queues: topic -> queued events
    published,          \* history: topic -> events put by Producer.send, in order
    delivered,          \* history: topic -> events returned by Consumer.__anext__
    tasks,              \* topic -> state of the _consume_one task of run_worker
    handlers,           \* the handlers the worker runs: the module's or a test's
    invocations,        \* history: the calls of the execution functions
    handler_log,        \* history: topic -> what the handler did with each event
    adapter_calls,      \* history: the calls of enqueue_*_run and how they ended
    run_count,          \* number of run requests made so far
    backlog,            \* history: topic -> events queued when run_worker began
    \* ---- execution context ----
    ctx,                \* the fields of an ExecutionContext
    clock,              \* the last instant datetime.utcnow() returned, in ticks
    ctx_calls,          \* number of calls made on the context so far
    uuids,              \* number of identifiers uuid.uuid4() has generated
    \* ---- persistence of runs ----
    workflow_runs,      \* the WorkflowRun table: run id -> record
    run_calls,          \* history: the calls of execute_workflow_run
    records_file        \* the workflow_runs file save_record appends to

wfVars == <<steps, pc, status, execution_history, input_data, execution_order,
            batchIdx, stepIdx, batch_results, step_outputs, current_data,
            errors, returned, calls, stepLog, cancelledIn>>

smVars == <<definition, current_states, running_activities, detached_activities,
            sm_history, lastOp>>

msgVars == <<queues, published, delivered, tasks, handlers, invocations,
             handler_log, adapter_calls, run_count, backlog>>

ctxVars == <<ctx, clock, ctx_calls, uuids>>

runVars == <<workflow_runs, run_calls, records_file>>

vars == <<wfVars, smVars, msgVars, ctxVars, runVars>>

(***************************************************************************)
(* Values flowing through a run.  The engine never inspects a value, so   *)
(* one distinct value per origin is enough to tell them apart.             *)
(***************************************************************************)
None == <<"none", 0>>
WorkflowInput == <<"input", 0>>
OutputOf(id) == <<"out", id>>

StepIds == 1..MaxSteps

RECURSIVE SumLens(_, _)
SumLens(st, i) == IF i > Len(st) THEN 0 ELSE Len(st[i].deps) + SumLens(st, i + 1)

\* number of dependency entries in a definition
DepEntries(st) == SumLens(st, 1)

(***************************************************************************)
(* WorkflowBase.get_step_by_id: the first step with that id, or None.      *)
(***************************************************************************)
NoStep == [id |-> 0, deps |-> <<>>]

RECURSIVE FirstWithId(_, _, _)
FirstWithId(st, id, i) ==
    IF i > Len(st) THEN NoStep
    ELSE IF st[i].id = id THEN st[i]
    ELSE FirstWithId(st, id, i + 1)

get_step_by_id(st, id) == FirstWithId(st, id, 1)

IdSet(st) == {st[i].id : i \in 1..Len(st)}

(***************************************************************************)
(* WorkflowBase._check_circular_dependencies: depth-first search with a    *)
(* visited set and a recursion stack.  has_cycle returns whether it found  *)
(* a back edge, with the two sets as it leaves them.                       *)
(***************************************************************************)
RECURSIVE has_cycle(_, _, _, _), has_cycle_deps(_, _, _, _, _)
has_cycle(st, id, visited, rec_stack) ==
    LET v1 == visited \cup {id}
        r1 == rec_stack \cup {id}
        step == get_step_by_id(st, id)
        res == IF step = NoStep
               THEN [found |-> FALSE, visited |-> v1, rec_stack |-> r1]
               ELSE has_cycle_deps(st, step.deps, 1, v1, r1)
    IN  IF res.found THEN res
        ELSE [found |-> FALSE, visited |-> res.visited,
              rec_stack |-> res.rec_stack \ {id}]

has_cycle_deps(st, deps, i, visited, rec_stack) ==
    IF i > Len(deps)
    THEN [found |-> FALSE, visited |-> visited, rec_stack |-> rec_stack]
    ELSE IF deps[i] \notin visited
         THEN LET r == has_cycle(st, deps[i], visited, rec_stack)
              IN  IF r.found THEN r
                  ELSE has_cycle_deps(st, deps, i + 1, r.visited, r.rec_stack)
         ELSE IF deps[i] \in rec_stack
              THEN [found |-> TRUE, visited |-> visited, rec_stack |-> rec_stack]
              ELSE has_cycle_deps(st, deps, i + 1, visited, rec_stack)

RECURSIVE check_from(_, _, _, _)
check_from(st, i, visited, rec_stack) ==
    IF i > Len(st) THEN FALSE
    ELSE IF st[i].id \in visited THEN check_from(st, i + 1, visited, rec_stack)
    ELSE LET r == has_cycle(st, st[i].id, visited, rec_stack)
         IN  r.found \/ check_from(st, i + 1, r.visited, r.rec_stack)

\* the search starts from the first step only, not from every unvisited step
check_circular_from_first_only(st) ==
    Len(st) > 0 /\ has_cycle(st, st[1].id, {}, {}).found

\* TRUE when _check_circular_dependencies raises
check_circular_dependencies(st) == check_from(st, 1, {}, {})

\* _validate_definition without its test for duplicate step ids
validate_without_duplicate_check(st) ==
    IF Len(st) = 0 THEN "empty"
    ELSE IF \E i \in 1..Len(st) : \E j \in 1..Len(st[i].deps) :
                st[i].deps[j] \notin IdSet(st)
         THEN "unknown_dependency"
    ELSE IF check_circular_dependencies(st) THEN "circular"
    ELSE "ok"

(***************************************************************************)
(* WorkflowBase._validate_definition: the error it raises, or "ok".        *)
(***************************************************************************)
validate_definition(st) ==
    IF Len(st) = 0 THEN "empty"
    ELSE IF Cardinality(IdSet(st)) # Len(st) THEN "duplicate"
    ELSE IF \E i \in 1..Len(st) : \E j \in 1..Len(st[i].deps) :
                st[i].deps[j] \notin IdSet(st)
         THEN "unknown_dependency"
    ELSE IF check_circular_dependencies(st) THEN "circular"
    ELSE "ok"

(***************************************************************************)
(* SimpleDAGWorkflow._build_execution_order: Kahn's algorithm in batches.  *)
(***************************************************************************)
\* in_degree[step.id] = len(step.dependencies)
InitialInDegree(st) ==
    [id \in IdSet(st) |-> Len(get_step_by_id(st, id).deps)]

\* graph[dep].append(step.id), steps and dependencies taken in list order
RECURSIVE DependentsOf(_, _, _, _)
DependentsOf(st, dep, i, j) ==
    IF i > Len(st) THEN <<>>
    ELSE IF j > Len(st[i].deps) THEN DependentsOf(st, dep, i + 1, 1)
    ELSE (IF st[i].deps[j] = dep THEN <<st[i].id>> ELSE <<>>)
         \o DependentsOf(st, dep, i, j + 1)

Graph(st) == [id \in IdSet(st) |-> DependentsOf(st, id, 1, 1)]

\* queue = [step_id for step_id, degree in in_degree.items()]: the test of the
\* in-degree is lost
RECURSIVE InitialQueueUnfiltered(_, _)
InitialQueueUnfiltered(st, i) ==
    IF i > Len(st) THEN <<>>
    ELSE <<st[i].id>> \o InitialQueueUnfiltered(st, i + 1)

\* queue = [step_id for step_id, degree in in_degree.items() if degree == 0]
RECURSIVE InitialQueue(_, _)
InitialQueue(st, i) ==
    IF i > Len(st) THEN <<>>
    ELSE (IF Len(st[i].deps) = 0 THEN <<st[i].id>> ELSE <<>>)
         \o InitialQueue(st, i + 1)

\* the inner loops over one batch: decrement the in-degree of every neighbour,
\* queue it when the in-degree reaches zero
RECURSIVE ProcessBatch(_, _, _, _, _, _)
ProcessBatch(graph, batch, i, j, in_degree, queue) ==
    IF i > Len(batch) THEN [in_degree |-> in_degree, queue |-> queue]
    ELSE IF j > Len(graph[batch[i]])
         THEN ProcessBatch(graph, batch, i + 1, 1, in_degree, queue)
         ELSE LET nb == graph[batch[i]][j]
                  deg == [in_degree EXCEPT ![nb] = @ - 1]
              IN  ProcessBatch(graph, batch, i, j + 1, deg,
                               IF deg[nb] = 0 THEN Append(queue, nb) ELSE queue)

\* a topological order that gives every step a batch of its own
RECURSIVE KahnLoopSerial(_, _, _, _)
KahnLoopSerial(graph, queue, in_degree, order) ==
    IF queue = <<>> THEN order
    ELSE LET r == ProcessBatch(graph, <<Head(queue)>>, 1, 1, in_degree, Tail(queue))
         IN  KahnLoopSerial(graph, r.queue, r.in_degree,
                            Append(order, <<Head(queue)>>))

RECURSIVE KahnLoop(_, _, _, _)
KahnLoop(graph, queue, in_degree, order) ==
    IF queue = <<>> THEN order
    ELSE LET r == ProcessBatch(graph, queue, 1, 1, in_degree, <<>>)
         IN  KahnLoop(graph, r.queue, r.in_degree, Append(order, queue))

build_execution_order(st) ==
    KahnLoop(Graph(st), InitialQueue(st, 1), InitialInDegree(st), <<>>)

\* _prepare_step_input taking the first dependency instead of the last
prepare_step_input_first_dep(step, workflow_input, previous_outputs) ==
    IF Len(step.deps) = 0 THEN workflow_input
    ELSE IF step.deps[1] \in DOMAIN previous_outputs
         THEN previous_outputs[step.deps[1]]
         ELSE workflow_input

(***************************************************************************)
(* SimpleDAGWorkflow._prepare_step_input.                                  *)
(***************************************************************************)
prepare_step_input(step, workflow_input, previous_outputs) ==
    IF Len(step.deps) = 0 THEN workflow_input
    ELSE LET last_dep == step.deps[Len(step.deps)]
         IN  IF last_dep \in DOMAIN previous_outputs
             THEN previous_outputs[last_dep]
             ELSE workflow_input

(***************************************************************************)
(* Step execution.  The step type and what the registry and the executor   *)
(* do are inputs of the dispatch.                                          *)
(***************************************************************************)
StepKinds == {"agent", "tool", "condition", "unsupported"}
\* "missing": the agent / tool is not in the registry, the condition is not
\* configured; "raises": the agent's execute(), the tool or the condition's
\* evaluation raises
Behaviours == {"ok", "raises", "missing"}

\* AgentBase.run: the result dict; an exception of execute() is caught and
\* becomes a dict with "error" and without "output"
agent_run(behaviour, out) ==
    IF behaviour = "raises"
    THEN [status |-> "failed", has_output |-> FALSE, output |-> None]
    ELSE [status |-> "completed", has_output |-> TRUE, output |-> out]

\* result.get("output")
DictGetOutput(result) == IF result.has_output THEN result.output ELSE None

\* an exception is known by its class and the step it names: the engine raises
\* ValueError itself, a tool raises what it likes
Raised(msg) == [raised |-> TRUE, out |-> None, error |-> msg]
Returned(out) == [raised |-> FALSE, out |-> out, error |-> <<"none", 0>>]

execute_agent_step(behaviour, id) ==
    IF behaviour = "missing" THEN Raised(<<"ValueError", id>>)
    ELSE Returned(DictGetOutput(agent_run(behaviour, OutputOf(id))))

execute_tool_step(behaviour, id) ==
    IF behaviour = "missing" THEN Raised(<<"ValueError", id>>)
    ELSE IF behaviour = "raises" THEN Raised(<<"tool_raised", id>>)
    ELSE Returned(OutputOf(id))

\* _evaluate_condition answers False when the evaluation raises; the default
\* of true_value / false_value is the step's input
execute_condition_step(behaviour, id, step_input) ==
    IF behaviour = "missing" THEN Raised(<<"ValueError", id>>)
    ELSE IF behaviour = "raises" THEN Returned(step_input)
    ELSE Returned(OutputOf(id))

execute_single_step(kind, behaviour, id, step_input) ==
    CASE kind = "agent" -> execute_agent_step(behaviour, id)
      [] kind = "tool" -> execute_tool_step(behaviour, id)
      [] kind = "condition" -> execute_condition_step(behaviour, id, step_input)
      [] OTHER -> Raised(<<"ValueError", id>>)

\* the step's own execution failed: its executor raised or could not be found
ExecutionFailed(kind, behaviour) ==
    \/ kind \in {"agent", "tool"} /\ behaviour \in {"raises", "missing"}
    \/ kind = "condition" /\ behaviour = "missing"
    \/ kind = "unsupported"

(***************************************************************************)
(* The results execute() builds.                                           *)
(***************************************************************************)
NoResult ==
    [execution_id |-> 0, status |-> "NONE", output |-> None, error |-> <<"none", 0>>]

\* the result of the success branch: status=self.status, just set to COMPLETED
completed_result(execution_id, output) ==
    [execution_id |-> execution_id, status |-> "COMPLETED", output |-> output,
     error |-> <<"none", 0>>]

\* the except branch building its result without first setting self.status
failed_result_stale_status(execution_id, msg) ==
    [execution_id |-> execution_id, status |-> status, output |-> None,
     error |-> msg]

\* the result of the except branch: status=self.status, just set to FAILED
failed_result(execution_id, msg) ==
    [execution_id |-> execution_id, status |-> "FAILED", output |-> None,
     error |-> msg]

\* execution_history holds the result objects themselves; the model keeps of
\* each its identity and the field the engine reads again (the status)
HistoryEntry(result) ==
    [execution_id |-> result.execution_id, status |-> result.status]

EmptyOutputs == [id \in {} |-> None]

RunVars == <<input_data, execution_order, batchIdx, stepIdx, batch_results,
             step_outputs, current_data, errors, returned, calls, stepLog,
             cancelledIn>>

\* WorkflowStep(id=..., dependencies=[]) appended to the definition's steps.
\* Ids are opaque to the engine: the new step takes an id already in use or
\* the next unused one.
AddStep ==
    /\ pc = "define"
    /\ Len(steps) < MaxSteps
    /\ \E id \in 1..(Len(steps) + 1) :
           steps' = Append(steps, [id |-> id, deps |-> <<>>])
    /\ UNCHANGED <<pc, status, execution_history, RunVars>>
    /\ UNCHANGED <<smVars, msgVars, ctxVars, runVars>>

\* one more entry in the dependencies list of a step
AddDependency ==
    /\ pc = "define"
    /\ DepEntries(steps) < MaxDepEntries
    /\ \E i \in 1..Len(steps) : \E dep \in StepIds :
           steps' = [steps EXCEPT ![i].deps = Append(@, dep)]
    /\ UNCHANGED <<pc, status, execution_history, RunVars>>
    /\ UNCHANGED <<smVars, msgVars, ctxVars, runVars>>

\* WorkflowBase.__init__: the engine exists only if _validate_definition passes
Construct ==
    /\ pc = "define"
    /\ IF validate_definition(steps) = "ok"
       THEN /\ pc' = "idle"
            /\ status' = "PENDING"
       ELSE /\ pc' = "rejected"
            /\ status' = status
    /\ UNCHANGED <<steps, execution_history, RunVars>>
    /\ UNCHANGED <<smVars, msgVars, ctxVars, runVars>>

\* execute(), up to the await of the audit trail's log_execution_start
Execute ==
    /\ pc = "idle"
    /\ calls < MaxRuns
    /\ calls' = calls + 1
    /\ input_data' = WorkflowInput
    /\ status' = "RUNNING"
    /\ pc' = "started"
    /\ errors' = <<>>
    /\ returned' = NoResult
    /\ stepLog' = <<>>
    /\ cancelledIn' = 0
    /\ execution_order' = <<>>
    /\ batchIdx' = 0
    /\ stepIdx' = 0
    /\ batch_results' = <<>>
    /\ step_outputs' = EmptyOutputs
    /\ current_data' = None
    /\ UNCHANGED <<steps, execution_history>>
    /\ UNCHANGED <<smVars, msgVars, ctxVars, runVars>>

\* _execute_workflow, up to the for loop over the batches
EnterWorkflow ==
    /\ pc = "started"
    /\ execution_order' = build_execution_order(steps)
    /\ step_outputs' = EmptyOutputs
    /\ current_data' = input_data
    /\ batchIdx' = 1
    /\ pc' = "loop"
    /\ UNCHANGED <<steps, status, execution_history, input_data, stepIdx,
                   batch_results, errors, returned, calls, stepLog, cancelledIn>>
    /\ UNCHANGED <<smVars, msgVars, ctxVars, runVars>>

\* the except branch of execute(): the run ends FAILED with the message
FailRun(errs, msg) ==
    /\ status' = failed_result(calls, msg).status
    /\ errors' = Append(errs, [type |-> "workflow_execution_error", message |-> msg])
    /\ execution_history' =
           Append(execution_history, HistoryEntry(failed_result(calls, msg)))
    /\ returned' = failed_result(calls, msg)
    /\ pc' = "idle"

\* the check at the head of the for loop finds the status CANCELLED
RaiseCancelled ==
    /\ pc = "loop"
    /\ batchIdx <= Len(execution_order)
    /\ status = "CANCELLED"
    /\ FailRun(errors, <<"cancelled", 0>>)
    /\ UNCHANGED <<steps, input_data, execution_order, batchIdx, stepIdx,
                   batch_results, step_outputs, current_data, calls, stepLog,
                   cancelledIn>>
    /\ UNCHANGED <<smVars, msgVars, ctxVars, runVars>>

\* _execute_step_batch is called for the next batch
StartBatch ==
    /\ pc = "loop"
    /\ batchIdx <= Len(execution_order)
    /\ status # "CANCELLED"
    /\ pc' = "batch"
    /\ stepIdx' = 1
    /\ batch_results' = <<>>
    /\ UNCHANGED <<steps, status, execution_history, input_data, execution_order,
                   batchIdx, step_outputs, current_data, errors, returned, calls,
                   stepLog, cancelledIn>>
    /\ UNCHANGED <<smVars, msgVars, ctxVars, runVars>>

LogEntry(id, step_input, kind, behaviour, res) ==
    [id |-> id, batch |-> batchIdx, input |-> step_input, out |-> res.out,
     raised |-> res.raised, failed |-> ExecutionFailed(kind, behaviour)]

\* one task of the batch is awaited: _execute_single_step runs for it
ExecStep ==
    /\ pc = "batch"
    /\ stepIdx <= Len(execution_order[batchIdx])
    /\ \E kind \in StepKinds, behaviour \in Behaviours :
         LET id == execution_order[batchIdx][stepIdx]
             step == get_step_by_id(steps, id)
             step_input == prepare_step_input(step, current_data, step_outputs)
             res == execute_single_step(kind, behaviour, id, step_input)
         IN  /\ stepLog' = Append(stepLog, LogEntry(id, step_input, kind, behaviour, res))
             /\ IF res.raised
                THEN /\ FailRun(Append(errors, [type |-> "step_execution_error",
                                                message |-> res.error]),
                                res.error)
                     /\ UNCHANGED <<stepIdx, batch_results>>
                ELSE /\ batch_results' = Append(batch_results, [id |-> id, out |-> res.out])
                     /\ stepIdx' = stepIdx + 1
                     /\ UNCHANGED <<pc, status, execution_history, errors, returned>>
    /\ UNCHANGED <<steps, input_data, execution_order, batchIdx, step_outputs,
                   current_data, calls, cancelledIn>>
    /\ UNCHANGED <<smVars, msgVars, ctxVars, runVars>>

\* for step_id, output in batch_results.items(): step_outputs[step_id] = output
RECURSIVE MergeOutputs(_, _, _)
MergeOutputs(outputs, results, i) ==
    IF i > Len(results) THEN outputs
    ELSE MergeOutputs([id \in DOMAIN outputs \cup {results[i].id} |->
                          IF id = results[i].id THEN results[i].out ELSE outputs[id]],
                      results, i + 1)

\* the loop over the results stopping after the first one
FirstOutput(results, current) ==
    IF Len(results) = 0 THEN current ELSE results[1].out

\* current_data = output, for every result in turn: the last one stays
LastOutput(results, current) ==
    IF Len(results) = 0 THEN current ELSE results[Len(results)].out

\* the batch returned its results: the loop body of _execute_workflow ends
EndBatch ==
    /\ pc = "batch"
    /\ stepIdx > Len(execution_order[batchIdx])
    /\ step_outputs' = MergeOutputs(step_outputs, batch_results, 1)
    /\ current_data' = LastOutput(batch_results, current_data)
    /\ batchIdx' = batchIdx + 1
    /\ pc' = "loop"
    /\ UNCHANGED <<steps, status, execution_history, input_data, execution_order,
                   stepIdx, batch_results, errors, returned, calls, stepLog,
                   cancelledIn>>
    /\ UNCHANGED <<smVars, msgVars, ctxVars, runVars>>

\* the loop is over: execute() ends COMPLETED with current_data as output
CompleteRun ==
    /\ pc = "loop"
    /\ batchIdx > Len(execution_order)
    /\ status' = completed_result(calls, current_data).status
    /\ execution_history' =
           Append(execution_history, HistoryEntry(completed_result(calls, current_data)))
    /\ returned' = completed_result(calls, current_data)
    /\ pc' = "idle"
    /\ UNCHANGED <<steps, input_data, execution_order, batchIdx, stepIdx,
                   batch_results, step_outputs, current_data, errors, calls,
                   stepLog, cancelledIn>>
    /\ UNCHANGED <<smVars, msgVars, ctxVars, runVars>>

\* WorkflowBase.cancel_execution, where it returns True
CancelExecution ==
    /\ pc \in {"idle", "started", "loop", "batch"}
    /\ status = "RUNNING"
    /\ status' = "CANCELLED"
    /\ cancelledIn' = IF pc = "batch" THEN batchIdx ELSE cancelledIn
    /\ UNCHANGED <<steps, pc, execution_history, input_data, execution_order,
                   batchIdx, stepIdx, batch_results, step_outputs, current_data,
                   errors, returned, calls, stepLog>>
    /\ UNCHANGED <<smVars, msgVars, ctxVars, runVars>>

\* WorkflowBase.pause_execution, where it returns True
PauseExecution ==
    /\ pc \in {"idle", "started", "loop", "batch"}
    /\ status = "RUNNING"
    /\ status' = "PAUSED"
    /\ UNCHANGED <<steps, pc, execution_history, RunVars>>
    /\ UNCHANGED <<smVars, msgVars, ctxVars, runVars>>

\* WorkflowBase.resume_execution, where it returns True
ResumeExecution ==
    /\ pc \in {"idle", "started", "loop", "batch"}
    /\ status = "PAUSED"
    /\ status' = "RUNNING"
    /\ UNCHANGED <<steps, pc, execution_history, RunVars>>
    /\ UNCHANGED <<smVars, msgVars, ctxVars, runVars>>

WFNext ==
    \/ AddStep
    \/ AddDependency
    \/ Construct
    \/ Execute
    \/ EnterWorkflow
    \/ RaiseCancelled
    \/ StartBatch
    \/ ExecStep
    \/ EndBatch
    \/ CompleteRun
    \/ CancelExecution
    \/ PauseExecution
    \/ ResumeExecution

(***************************************************************************)
(* The state machine executor.  A definition is a record of State and      *)
(* Transition records; an Action is told by what its execute does, a Guard *)
(* by what its condition does.                                             *)
(***************************************************************************)
\* Optional[str] = None (or the empty string) for a state id
NoId == "<none>"

\* Optional[Action] of a state or a transition: None, or what execute does
ActionKinds == {"none", "ok", "raises"}

\* Optional[Guard] of a transition: None, or what condition does
GuardKinds == {"none", "true", "false", "raises"}

State(id, state_type, substates, initial_state, regions, entry, exit, do) ==
    [id |-> id, state_type |-> state_type, substates |-> substates,
     initial_state |-> initial_state, regions |-> regions,
     entry_action |-> entry, exit_action |-> exit, do_activity |-> do]

SimpleState(id) == State(id, "SIMPLE", <<>>, NoId, <<>>, "none", "none", "none")

FinalState(id) == State(id, "FINAL", <<>>, NoId, <<>>, "none", "none", "none")

Transition(id, source, target, event, guard, action, priority) ==
    [id |-> id, source_state |-> source, target_state |-> target,
     event |-> event, guard |-> guard, action |-> action, priority |-> priority]

StateMachineDefinition(id, states, transitions, initial_state, final_states) ==
    [id |-> id, states |-> states, transitions |-> transitions,
     initial_state |-> initial_state, final_states |-> final_states]

\* no machine: what the variables hold while the workflow engine is studied
NoMachine == StateMachineDefinition("none", <<>>, <<>>, NoId, {})

\* a process with a COMPOSITE working state around two substates
Hierarchical ==
    StateMachineDefinition("hierarchical",
        << SimpleState("idle"),
           State("work", "COMPOSITE", <<"fetch", "process">>, "fetch", <<>>,
                 "ok", "ok", "none"),
           State("fetch", "SIMPLE", <<>>, NoId, <<>>, "none", "none", "ok"),
           SimpleState("process"),
           State("done", "FINAL", <<>>, NoId, <<>>, "ok", "none", "none") >>,
        << Transition("t_go", "idle", "work", "go", "none", "ok", 0),
           Transition("t_next", "fetch", "process", "next", "none", "none", 0),
           Transition("t_redo", "process", "work", "redo", "none", "none", 0),
           Transition("t_abort", "process", "idle", "abort", "none", "none", 0),
           Transition("t_finish", "work", "done", "finish", "true", "ok", 0) >>,
        "idle", {"done"})

\* a PARALLEL state with two regions of two states each
Parallel ==
    StateMachineDefinition("parallel",
        << State("par", "PARALLEL", <<"a1", "a2", "b1", "b2">>, NoId,
                 << <<"a1", "a2">>, <<"b1", "b2">> >>, "ok", "none", "ok"),
           SimpleState("a1"),
           SimpleState("a2"),
           SimpleState("b1"),
           SimpleState("b2"),
           FinalState("end") >>,
        << Transition("t_a", "a1", "a2", "e", "none", "none", 0),
           Transition("t_guarded", "a1", "end", "e", "raises", "none", 5),
           Transition("t_b", "b1", "b2", "e", "none", "none", 0),
           Transition("t_restart", "a2", "par", "restart", "none", "none", 0),
           Transition("t_finish", "par", "end", "finish", "none", "ok", 0),
           Transition("t_retry", "a2", "par", "retry", "none", "raises", 0) >>,
        "par", {"end"})

\* definitions the dataclasses accept although they are unusual: a region
\* with no state, a composite whose initial state is not a state, actions
\* and guards that raise, transitions of different priorities on one event,
\* a transition whose target is not a state
Degenerate ==
    StateMachineDefinition("degenerate",
        << SimpleState("s0"),
           State("p", "PARALLEL", <<"x">>, NoId, << <<>>, <<"x">> >>,
                 "none", "none", "none"),
           SimpleState("x"),
           State("c", "COMPOSITE", <<"y">>, "missing", <<>>, "none", "none", "none"),
           State("y", "SIMPLE", <<>>, NoId, <<>>, "none", "raises", "none"),
           State("z", "COMPOSITE", <<"x">>, "x", <<>>, "raises", "none", "ok") >>,
        << Transition("g_false", "s0", "x", "go", "false", "none", 2),
           Transition("g_raises", "s0", "y", "go", "raises", "none", 1),
           Transition("g_true", "s0", "p", "go", "true", "ok", 0),
           Transition("t_bad", "s0", "c", "bad", "none", "none", 0),
           Transition("t_boom", "s0", "y", "boom", "none", "raises", 0),
           Transition("t_any", "x", "y", "*", "none", "none", 0),
           Transition("t_toz", "s0", "z", "toz", "none", "none", 0),
           Transition("t_leave", "y", "s0", "leave", "none", "none", 0),
           Transition("t_stay", "p", "p", "out", "none", "none", 1),
           Transition("t_out", "p", "s0", "out", "true", "none", 3),
           Transition("t_nowhere", "s0", "nowhere", "lost", "none", "none", 0) >>,
        "s0", {})

\* an approval_response event whose data has a true "approved", and one whose
\* data has none or a false one
Approved == "approval_response{approved}"
NotApproved == "approval_response{}"

\* create_approval_state_machine(), in a context whose variable
\* requires_approval has the given truth value.  A guard is a function of the
\* variables and of the event: each guarded transition stands here once for
\* every event data that the guard tells apart, with the value the guard has
\* for it.
Approval(requires_approval) ==
    LET check_approval_needed == IF requires_approval THEN "true" ELSE "false"
        not_check_approval_needed == IF requires_approval THEN "false" ELSE "true"
    IN  StateMachineDefinition("approval_workflow",
            << SimpleState("initial"),
               SimpleState("processing"),
               SimpleState("pending_approval"),
               SimpleState("approved"),
               FinalState("rejected"),
               FinalState("completed") >>,
            << Transition("start_processing", "initial", "processing", "start",
                          "none", "none", 0),
               Transition("needs_approval", "processing", "pending_approval",
                          "processed", check_approval_needed, "none", 0),
               Transition("auto_approve", "processing", "completed",
                          "processed", not_check_approval_needed, "none", 0),
               Transition("approve", "pending_approval", "approved",
                          Approved, "true", "none", 0),
               Transition("reject", "pending_approval", "rejected",
                          Approved, "false", "none", 0),
               Transition("approve", "pending_approval", "approved",
                          NotApproved, "false", "none", 0),
               Transition("reject", "pending_approval", "rejected",
                          NotApproved, "true", "none", 0),
               Transition("complete", "approved", "completed", "finalize",
                          "none", "none", 0) >>,
            "initial", {"completed", "rejected"})

Catalogue ==
    {Hierarchical, Parallel, Degenerate, Approval(TRUE), Approval(FALSE)}

\* self._state_map = {state.id: state for state in definition.states}: of two
\* states with one id the later one stays
RECURSIVE LastWithId(_, _, _)
LastWithId(states, id, i) ==
    IF i = 0 THEN 0
    ELSE IF states[i].id = id THEN i
    ELSE LastWithId(states, id, i - 1)

HasState(d, id) == LastWithId(d.states, id, Len(d.states)) # 0

StateOf(d, id) == d.states[LastWithId(d.states, id, Len(d.states))]

\* transitions.sort(key=lambda t: t.priority, reverse=True): a stable sort,
\* transitions of equal priority keep the order of the definition
RECURSIVE InsertByPriority(_, _, _)
InsertByPriority(sorted, t, i) ==
    IF i > Len(sorted) THEN Append(sorted, t)
    ELSE IF sorted[i].priority < t.priority
         THEN SubSeq(sorted, 1, i - 1) \o <<t>> \o SubSeq(sorted, i, Len(sorted))
    ELSE InsertByPriority(sorted, t, i + 1)

RECURSIVE SortByPriority(_, _)
SortByPriority(ts, n) ==
    IF n = 0 THEN <<>>
    ELSE InsertByPriority(SortByPriority(ts, n - 1), ts[n], 1)

\* the transitions of a state as the definition lists them, priorities ignored
TransitionsFromUnsorted(d, state_id) ==
    SelectSeq(d.transitions, LAMBDA t : t.source_state = state_id)

\* self._transition_map.get(state_id, [])
TransitionsFrom(d, state_id) ==
    LET from == SelectSeq(d.transitions, LAMBDA t : t.source_state = state_id)
    IN  SortByPriority(from, Len(from))

(***************************************************************************)
(* A call on the machine is computed on a record of what it changes: cs is *)
(* context.current_states, ra the keys of _running_activities, detached    *)
(* the tasks replaced there without being cancelled, raised                *)
(* whether an exception is propagating, trace what has been done so far,   *)
(* each entry with the active states at that moment.                       *)
(***************************************************************************)
Log(ms, kind, id) ==
    [ms EXCEPT !.trace = Append(@, [kind |-> kind, id |-> id, active |-> ms.cs])]

Raise(ms, id) == [Log(ms, "raise", id) EXCEPT !.raised = TRUE]

\* _execute_action: the action runs, and what it raises is raised again
execute_action(ms, action, kind, id) ==
    IF action = "none" THEN ms
    ELSE IF action = "ok" THEN Log(ms, kind, id)
    ELSE Raise(Log(ms, kind, id), id)

RECURSIVE enter_state(_, _, _), enter_regions(_, _, _, _)

\* for region in state.regions: if region: await self._enter_state(region[0])
enter_regions(d, ms, regions, i) ==
    IF i > Len(regions) \/ ms.raised THEN ms
    ELSE IF Len(regions[i]) > 0
         THEN enter_regions(d, enter_state(d, ms, regions[i][1]), regions, i + 1)
    ELSE enter_regions(d, ms, regions, i + 1)

\* entry of the substates without the branch of the composite states
enter_substates_parallel_only(d, ms, state) ==
    IF state.state_type = "PARALLEL"
    THEN enter_regions(d, ms, state.regions, 1)
    ELSE ms

\* _enter_state, the hierarchical part: the initial state of a composite
\* state, or the first state of every region of a parallel state
enter_substates(d, ms, state) ==
    IF state.state_type = "COMPOSITE" /\ state.initial_state # NoId
    THEN enter_state(d, ms, state.initial_state)
    ELSE IF state.state_type = "PARALLEL"
         THEN enter_regions(d, ms, state.regions, 1)
    ELSE ms

\* _enter_state, the end: the task of the do activity is registered.  The
\* assignment to _running_activities[state_id] replaces a task registered
\* for the state without cancelling it: that task goes on by itself.
start_do_activity(ms, state) ==
    IF state.do_activity = "none" THEN ms
    ELSE IF state.id \in ms.ra
         THEN Log([ms EXCEPT !.detached = @ \cup {state.id}],
                  "activity_replaced", state.id)
    ELSE Log([ms EXCEPT !.ra = @ \cup {state.id}], "activity_started", state.id)

\* _enter_state
enter_state(d, ms, state_id) ==
    IF ~HasState(d, state_id) THEN Raise(ms, state_id)
    ELSE LET state == StateOf(d, state_id)
             added == Log([ms EXCEPT !.cs = @ \cup {state_id}], "enter", state_id)
             acted == execute_action(added, state.entry_action, "entry_action", state_id)
             nested == IF acted.raised THEN acted ELSE enter_substates(d, acted, state)
         IN  IF nested.raised THEN nested
             ELSE Log(start_do_activity(nested, state), "entered", state_id)

\* the states of all regions, region after region
RECURSIVE Flatten(_, _)
Flatten(regions, i) ==
    IF i > Len(regions) THEN <<>> ELSE regions[i] \o Flatten(regions, i + 1)

RECURSIVE exit_state(_, _, _), exit_each(_, _, _, _)

\* for s in ...: await self._exit_state(s)
exit_each(d, ms, ids, i) ==
    IF i > Len(ids) \/ ms.raised THEN ms
    ELSE exit_each(d, exit_state(d, ms, ids[i]), ids, i + 1)

\* _exit_state, the hierarchical part: the active substates of a composite
\* state, or the active states of the regions of a parallel state
exit_substates(d, ms, state) ==
    IF state.state_type = "COMPOSITE"
    THEN exit_each(d, ms, SelectSeq(state.substates, LAMBDA s : s \in ms.cs), 1)
    ELSE IF state.state_type = "PARALLEL"
         THEN exit_each(d, ms, Flatten(state.regions, 1), 1)
    ELSE ms

\* _exit_state, the start: the task of the do activity is cancelled
stop_do_activity(ms, state_id) ==
    IF state_id \in ms.ra
    THEN Log([ms EXCEPT !.ra = @ \ {state_id}], "activity_cancelled", state_id)
    ELSE ms

\* _exit_state
exit_state(d, ms, state_id) ==
    IF state_id \notin ms.cs \/ ~HasState(d, state_id) THEN ms
    ELSE LET state == StateOf(d, state_id)
             begun == stop_do_activity(Log(ms, "exit", state_id), state_id)
             nested == exit_substates(d, begun, state)
             acted == IF nested.raised THEN nested
                      ELSE execute_action(nested, state.exit_action, "exit_action", state_id)
         IN  IF acted.raised THEN acted
             ELSE Log([acted EXCEPT !.cs = @ \ {state_id}], "exited", state_id)

\* a transition whose action runs while the source is still active
execute_transition_action_first(d, ms, t) ==
    LET begun == Log(ms, "transition", t.id)
        acted == execute_action(begun, t.action, "transition_action", t.id)
        exited == IF acted.raised THEN acted
                  ELSE exit_state(d, acted, t.source_state)
    IN  IF exited.raised THEN exited ELSE enter_state(d, exited, t.target_state)

\* a transition that puts the active states back when its action or the
\* entry of its target raises
execute_transition_rolled_back(d, ms, t) ==
    LET begun == Log(ms, "transition", t.id)
        exited == exit_state(d, begun, t.source_state)
        acted == IF exited.raised THEN exited
                 ELSE execute_action(exited, t.action, "transition_action", t.id)
        entered == IF acted.raised THEN acted
                   ELSE enter_state(d, acted, t.target_state)
    IN  IF entered.raised /\ ~exited.raised
        THEN [entered EXCEPT !.cs = ms.cs]
        ELSE entered

\* _execute_transition: exit the source, run the action, enter the target
execute_transition(d, ms, t) ==
    LET begun == Log(ms, "transition", t.id)
        exited == exit_state(d, begun, t.source_state)
        acted == IF exited.raised THEN exited
                 ELSE execute_action(exited, t.action, "transition_action", t.id)
    IN  IF acted.raised THEN acted ELSE enter_state(d, acted, t.target_state)

\* a guard that raises lets the transition fire
GuardPassesUnlessFalse(guard) == guard # "false"

\* the first transition of the list that the event matches, whatever its guard
RECURSIVE FirstMatching(_, _, _)
FirstMatching(ts, event, i) ==
    IF i > Len(ts) THEN 0
    ELSE IF ts[i].event = event \/ ts[i].event = "*" THEN i
    ELSE FirstMatching(ts, event, i + 1)

\* the guard of a transition lets it fire: a guard that raises does not
GuardPasses(guard) == guard \in {"none", "true"}

\* the first transition of the list whose guard passes, whatever its event
RECURSIVE FirstFiringAnyEvent(_, _, _)
FirstFiringAnyEvent(ts, event, i) ==
    IF i > Len(ts) THEN 0
    ELSE IF GuardPasses(ts[i].guard) THEN i
    ELSE FirstFiringAnyEvent(ts, event, i + 1)

\* index of the first transition of the list that the event fires, or 0
RECURSIVE FirstFiring(_, _, _)
FirstFiring(ts, event, i) ==
    IF i > Len(ts) THEN 0
    ELSE IF (ts[i].event = event \/ ts[i].event = "*") /\ GuardPasses(ts[i].guard)
         THEN i
    ELSE FirstFiring(ts, event, i + 1)

\* _process_transitions_for_state
process_transitions_for_state(d, ms, state_id, event) ==
    LET ts == TransitionsFrom(d, state_id)
        i == FirstFiring(ts, event, 1)
    IN  IF i = 0 THEN [ms |-> ms, fired |-> FALSE]
        ELSE [ms |-> execute_transition(d, ms, ts[i]), fired |-> TRUE]

\* send_event, the loop over the list of the states active when it began
RECURSIVE for_each_state(_, _, _, _, _, _)
for_each_state(d, ms, order, i, event, fired) ==
    IF i > Len(order) \/ ms.raised THEN [ms |-> ms, fired |-> fired]
    ELSE LET r == process_transitions_for_state(d, ms, order[i], event)
         IN  for_each_state(d, r.ms, order, i + 1, event, fired \/ r.fired)

\* list(self.context.current_states): the states of the set in the order the
\* iteration of the set happens to give
Orders(S) ==
    {order \in [1..Cardinality(S) -> S] :
        \A i, j \in 1..Cardinality(S) : order[i] = order[j] => i = j}

\* the names of the events a client sends: those of the definition and one
\* that no transition has
EventNames(d) ==
    ({d.transitions[i].event : i \in 1..Len(d.transitions)} \ {"*"}) \cup {"unknown"}

NoEvent == "<no event>"

NoCall == [op |-> "none", event |-> NoEvent, order |-> <<>>, result |-> "none",
           trace |-> <<>>]

\* AdvancedStateMachine.__init__ and StateMachineContext.__init__
SMConstructed(d) ==
    /\ definition = d
    /\ current_states = {}
    /\ running_activities = {}
    /\ detached_activities = {}
    /\ sm_history = <<>>
    /\ lastOp = NoCall

\* the machine as a call finds it
NewCall ==
    [cs |-> current_states, ra |-> running_activities,
     detached |-> detached_activities, raised |-> FALSE, trace |-> <<>>]

\* the machine as a call leaves it
Commit(ms, op, event, order, result) ==
    /\ current_states' = ms.cs
    /\ running_activities' = ms.ra
    /\ detached_activities' = ms.detached
    /\ lastOp' = [op |-> op, event |-> event, order |-> order, result |-> result,
                  trace |-> ms.trace]

\* start(): False without an initial state or when the entry raises.  The
\* client starts a machine that has no active state: a new one, or one that
\* stop() has emptied.
SMStart ==
    /\ current_states = {}
    /\ IF definition.initial_state = NoId
       THEN Commit(NewCall, "start", NoEvent, <<>>, "False")
       ELSE LET ms == enter_state(definition, NewCall, definition.initial_state)
            IN  Commit(ms, "start", NoEvent, <<>>,
                       IF ms.raised THEN "False" ELSE "True")
    /\ UNCHANGED <<definition, sm_history>>
    /\ UNCHANGED <<wfVars, msgVars, ctxVars, runVars>>

\* the states of the list that have a transition the event fires.  Which
\* states these are is settled by the definition alone, and the loop passes
\* over the other states without doing anything: the order in which the
\* iteration gives these states is all that it decides.
Responsive(d, S, event) ==
    {s \in S : FirstFiring(TransitionsFrom(d, s), event, 1) # 0}

\* send_event(): whether a transition fired, unless a transition raised
SMSendEvent ==
    /\ Len(sm_history) < MaxEvents
    /\ \E event \in EventNames(definition) :
       \E order \in Orders(Responsive(definition, current_states, event)) :
         LET r == for_each_state(definition, NewCall, order, 1, event, FALSE)
         IN  /\ sm_history' = Append(sm_history, event)
             /\ Commit(r.ms, "send_event", event, order,
                       IF r.ms.raised THEN "raised"
                       ELSE IF r.fired THEN "True" ELSE "False")
    /\ UNCHANGED definition
    /\ UNCHANGED <<wfVars, msgVars, ctxVars, runVars>>

\* stop(): the registered activities are cancelled, the active states exited
SMStop ==
    /\ \E order \in Orders(current_states) :
         LET cleared == Log([NewCall EXCEPT !.ra = {}], "activities_cleared", NoId)
             ms == exit_each(definition, cleared, order, 1)
         IN  Commit(ms, "stop", NoEvent, order,
                    IF ms.raised THEN "raised" ELSE "None")
    /\ UNCHANGED <<definition, sm_history>>
    /\ UNCHANGED <<wfVars, msgVars, ctxVars, runVars>>

\* _execute_do_activity, the head of its loop: a task that nobody cancelled
\* finds its state not active any more and returns
SMActivityEnds ==
    /\ \E s \in detached_activities :
          /\ s \notin current_states
          /\ detached_activities' = detached_activities \ {s}
    /\ UNCHANGED <<definition, current_states, running_activities, sm_history,
                   lastOp>>
    /\ UNCHANGED <<wfVars, msgVars, ctxVars, runVars>>

SMNext ==
    \/ SMStart
    \/ SMSendEvent
    \/ SMStop
    \/ SMActivityEnds

(***************************************************************************)
(* The specifications: one subsystem moves, the other one is not there.    *)
(***************************************************************************)
(***************************************************************************)
(* Messaging: the in-process broker, the worker that consumes the run      *)
(* requests, and the adapters that publish them.                           *)
(***************************************************************************)
Topics == {"workflow-requests", "agent-requests"}

\* a Python string
StrOf(x) == <<"str", x>>

\* str(v): a string stays what it is, anything else becomes its text
Str(v) ==
    IF v = None THEN StrOf("None")
    ELSE IF v[1] = "str" THEN v
    ELSE StrOf(v[2])

\* the ids the callers hand to the adapters: the workflow view gives
\* str(wf.id); the agent task gives str(run.agent.id), the agent view gives
\* agent.id as the model field holds it
IdsOf(topic) ==
    IF topic = "workflow-requests" THEN {StrOf("wf1")}
    ELSE {StrOf("ag1"), <<"uuid", "ag1">>}

\* the payloads of the requests; the handler of the reliability test raises
\* for the second one
Payloads == {"good", "bad"}

\* the run-request event of a topic
RunRequested(topic, run_id, id, payload) ==
    [type |-> IF topic = "workflow-requests" THEN "workflow.run.requested"
              ELSE "agent.run.requested",
     run_id |-> run_id, id |-> id, payload |-> payload]

\* asyncio.Queue.put on a queue without a maximum size
queue_put(q, value) == Append(q, value)

\* a get that takes the newest item
queue_get_newest(q) == [val |-> q[Len(q)], rest |-> SubSeq(q, 1, Len(q) - 1)]

\* asyncio.Queue.get on a queue that is not empty
queue_get(q) == [val |-> Head(q), rest |-> Tail(q)]

\* InMemoryBroker.__init__, before any worker or adapter has run.  _get_queue
\* makes the queue of a topic when it is first asked for, by a producer or by
\* a consumer: no caller can tell a topic without a queue from one with an
\* empty queue.
BrokerCreated(q) ==
    /\ queues = [t \in Topics |-> q]
    /\ published = [t \in Topics |-> <<>>]
    /\ delivered = [t \in Topics |-> <<>>]
    /\ tasks = [t \in Topics |-> "none"]
    /\ handlers = "module"
    /\ invocations = <<>>
    /\ handler_log = [t \in Topics |-> <<>>]
    /\ adapter_calls = <<>>
    /\ run_count = 0
    /\ backlog = [t \in Topics |-> 0]

\* try: f.delay(...) except Exception: f(...).  delay queues the task on
\* Celery or raises (no broker, or no Celery: the function has no delay
\* attribute); the direct call returns or raises.
dispatch(fn, run_id, arg, payload, delay, direct, origin) ==
    [fn |-> fn, run_id |-> run_id, arg |-> arg, payload |-> payload,
     via |-> IF delay = "queued" THEN "delay" ELSE "direct",
     outcome |-> IF delay = "queued" THEN "queued" ELSE direct,
     origin |-> origin]

\* the dispatch of a workflow run: the definition is {"id": str(workflow_id)}
dispatch_workflow(run_id, workflow_id, payload, delay, direct, origin) ==
    dispatch("execute_workflow_run", run_id, <<"id", Str(workflow_id)>>, payload,
             delay, direct, origin)

\* the dispatch of an agent run
dispatch_agent(run_id, agent_id, payload, delay, direct, origin) ==
    dispatch("execute_agent_run", run_id, Str(agent_id), payload,
             delay, direct, origin)

\* a worker that hands every event to the agent function
handle_event_as_agent(topic, ev, delay, direct) ==
    dispatch_agent(ev.run_id, ev.id, ev.payload, delay, direct, "worker")

\* _handle_workflow_event / _handle_agent_event: the dispatch they make
handle_event(topic, ev, delay, direct) ==
    IF topic = "workflow-requests"
    THEN dispatch_workflow(ev.run_id, ev.id, ev.payload, delay, direct, "worker")
    ELSE dispatch_agent(ev.run_id, ev.id, ev.payload, delay, direct, "worker")

\* Producer.send: the event is put on the queue of the topic
Publish(topic, ev) ==
    /\ queues' = [queues EXCEPT ![topic] = queue_put(@, ev)]
    /\ published' = [published EXCEPT ![topic] = Append(@, ev)]

\* a producer of the broker sends a run request.  Producers keep nothing:
\* which of them sends makes no difference to the broker.
Send ==
    /\ run_count < MaxRequests
    /\ run_count' = run_count + 1
    /\ \E topic \in Topics : \E id \in IdsOf(topic), payload \in Payloads :
          Publish(topic, RunRequested(topic, run_count + 1, id, payload))
    /\ UNCHANGED <<delivered, tasks, handlers, invocations, handler_log,
                   adapter_calls, backlog>>
    /\ UNCHANGED <<wfVars, smVars, ctxVars, runVars>>

\* run_worker, called once in a process: the consumers are made and the two
\* tasks created, with the module's handlers or with the handler of the
\* reliability test
RunWorker ==
    /\ \A t \in Topics : tasks[t] = "none"
    /\ tasks' = [t \in Topics |-> "running"]
    /\ handlers' \in {"module", "test"}
    /\ backlog' = [t \in Topics |-> Len(queues[t])]
    /\ UNCHANGED <<queues, published, delivered, invocations, handler_log,
                   adapter_calls, run_count>>
    /\ UNCHANGED <<wfVars, smVars, ctxVars, runVars>>

\* a loop whose task ends with what the handler raised
consume_one_unguarded(raised) == IF raised THEN "failed" ELSE "running"

\* _consume_one, the try around the handler: what the handler raises is
\* caught and logged, and the loop goes on to the next event
consume_one_guarded(raised) == "running"

\* the handler of a topic: the reliability test replaces the one of the
\* workflow topic
HandlerOf(topic) ==
    IF handlers = "test" /\ topic = "workflow-requests" THEN "failing_handler"
    ELSE "module"

\* _consume_one, one turn of its loop: Consumer.__anext__ returns the next
\* event and the handler is awaited
Consume(topic) ==
    /\ tasks[topic] = "running"
    /\ queues[topic] # <<>>
    /\ LET got == queue_get(queues[topic])
           ev == got.val
           raised == HandlerOf(topic) = "failing_handler" /\ ev.payload = "bad"
       IN  /\ queues' = [queues EXCEPT ![topic] = got.rest]
           /\ delivered' = [delivered EXCEPT ![topic] = Append(@, ev)]
           /\ handler_log' = [handler_log EXCEPT ![topic] =
                  Append(@, [run_id |-> ev.run_id, raised |-> raised])]
           /\ tasks' = [tasks EXCEPT ![topic] = consume_one_guarded(raised)]
           /\ IF HandlerOf(topic) = "module"
              THEN \E delay \in {"queued", "raises"}, direct \in {"returns", "raises"} :
                     invocations' = Append(invocations,
                                           handle_event(topic, ev, delay, direct))
              ELSE invocations' = invocations
    /\ UNCHANGED <<published, handlers, adapter_calls, run_count, backlog>>
    /\ UNCHANGED <<wfVars, smVars, ctxVars, runVars>>

WorkerConsume == \E topic \in Topics : Consume(topic)

\* run_worker after stop_after seconds: the two tasks are cancelled
WorkerStop ==
    /\ \E t \in Topics : tasks[t] = "running"
    /\ tasks' = [t \in Topics |-> "cancelled"]
    /\ UNCHANGED <<queues, published, delivered, handlers, invocations,
                   handler_log, adapter_calls, run_count, backlog>>
    /\ UNCHANGED <<wfVars, smVars, ctxVars, runVars>>

\* an adapter that only logs when publishing raises
fallback_logs_only(topic, run_id, id, payload, delay, direct) == <<>>

\* the except branch of the adapters: the calls of the execution function it
\* makes, delay first and the function itself when delay raises
fallback(topic, run_id, id, payload, delay, direct) ==
    << IF topic = "workflow-requests"
       THEN dispatch_workflow(run_id, id, payload, delay, direct, "adapter")
       ELSE dispatch_agent(run_id, id, payload, delay, direct, "adapter") >>

\* how a call of an adapter ends: it returns None after publishing, after a
\* dispatch, and after logging what the dispatch raised
enqueue_returns(pub, delay, direct) == "None"

\* enqueue_workflow_run / enqueue_agent_run: publish the request, or dispatch
\* the run from here when publishing raises (get_producer, send or
\* run_until_complete raising inside _send_event)
Enqueue(topic) ==
    /\ run_count < MaxRequests
    /\ run_count' = run_count + 1
    /\ \E id \in IdsOf(topic), payload \in Payloads, pub \in {"sent", "raises"},
          delay \in {"queued", "raises"}, direct \in {"returns", "raises"} :
         LET run_id == run_count + 1
             ev == RunRequested(topic, run_id,
                                IF topic = "agent-requests" THEN Str(id) ELSE id,
                                payload)
             done == [fn |-> IF topic = "workflow-requests"
                             THEN "enqueue_workflow_run" ELSE "enqueue_agent_run",
                      run_id |-> run_id, id |-> id, payload |-> payload,
                      published |-> pub = "sent",
                      returned |-> enqueue_returns(pub, delay, direct)]
         IN  /\ adapter_calls' = Append(adapter_calls, done)
             /\ IF pub = "sent"
                THEN /\ Publish(topic, ev)
                     /\ invocations' = invocations
                ELSE /\ invocations' = invocations \o
                            fallback(topic, run_id, id, payload, delay, direct)
                     /\ UNCHANGED <<queues, published>>
    /\ UNCHANGED <<delivered, tasks, handlers, handler_log, backlog>>
    /\ UNCHANGED <<wfVars, smVars, ctxVars, runVars>>

EnqueueWorkflowRun == Enqueue("workflow-requests")

EnqueueAgentRun == Enqueue("agent-requests")

MsgNext ==
    \/ Send
    \/ RunWorker
    \/ WorkerConsume
    \/ WorkerStop
    \/ EnqueueWorkflowRun
    \/ EnqueueAgentRun

(***************************************************************************)
(* The execution context: src/src/core/execution_context.py                *)
(***************************************************************************)
\* Python values are tagged: None, <<"str", s>>, <<"dict", pairs>>,
\* <<"dt", seconds, microseconds>>, <<"ExecutionPhase", value>>.

\* d[key] = value
dict_set(d, key, value) ==
    <<"dict", {p \in d[2] : p[1] # key} \cup {<<key, value>>}>>

\* a or b, for an optional string or dictionary a
Or(a, b) ==
    IF /\ a[1] # "none"
       /\ a[1] = "str" => a[2] # ""
       /\ a[1] = "dict" => a[2] # {}
    THEN a ELSE b

\* datetime.utcnow() at tick t of the clock: two ticks to the second, so that
\* some instants have microseconds and some have none
utcnow(t) == <<"dt", t \div 2, (t % 2) * 500000>>

\* datetime.isoformat(): the microseconds are left out when they are zero
isoformat(dt) ==
    IF dt[3] = 0 THEN <<"iso", dt[2]>> ELSE <<"iso", dt[2], dt[3]>>

\* a parser that reads whole seconds only
fromisoformat_seconds(s) == <<"dt", s[2], 0>>

\* datetime.fromisoformat() of what isoformat() wrote
fromisoformat(s) ==
    IF Len(s) = 2 THEN <<"dt", s[2], 0>> ELSE <<"dt", s[2], s[3]>>

\* str(uuid.uuid4()): the n-th identifier generated
uuid4(n) ==
    StrOf(<<"u1", "u2", "u3", "u4", "u5", "u6", "u7", "u8", "u9", "u10">>[n])

\* ExecutionContext.__init__; u1 and u2 are the identifiers generated for
\* execution_id and, when none is given, session_id; now is utcnow()
ExecutionContext(workflow_id, agent_id, user_id, session_id, metadata, run_id, memory, u1, u2, now) ==
    [execution_id |-> u1,
     workflow_id |-> workflow_id,
     agent_id |-> agent_id,
     user_id |-> user_id,
     session_id |-> Or(session_id, u2),
     created_at |-> now,
     updated_at |-> now,
     run_id |-> Or(run_id, u1),
     phase |-> <<"ExecutionPhase", "initialization">>,
     step_count |-> 0,
     is_cancelled |-> FALSE,
     shared_data |-> <<"dict", {}>>,
     intermediate_results |-> <<>>,
     memory |-> Or(memory, <<"dict", {}>>),
     executed_tools |-> <<>>,
     executed_agents |-> <<>>,
     agent_outputs |-> <<"dict", {}>>,
     errors |-> <<>>,
     warnings |-> <<>>,
     metadata |-> Or(metadata, <<"dict", {}>>),
     config |-> <<"dict", {}>>,
     start_time |-> None,
     end_time |-> None,
     step_timings |-> <<"dict", {}>>,
     memory_usage |-> <<>>,
     cpu_usage |-> <<>>]

\* _update_timestamp
update_timestamp(c, now) == [c EXCEPT !.updated_at = now]

start_execution(c, now1, now2) ==
    update_timestamp([c EXCEPT !.start_time = now1,
                               !.phase = <<"ExecutionPhase", "input_processing">>],
                     now2)

end_execution(c, now1, now2) ==
    update_timestamp([c EXCEPT !.end_time = now1,
                               !.phase = <<"ExecutionPhase", "completion">>],
                     now2)

advance_phase(c, phase, now) ==
    update_timestamp([c EXCEPT !.phase = phase, !.step_count = @ + 1], now)

set_shared_data(c, key, value, now) ==
    update_timestamp([c EXCEPT !.shared_data = dict_set(@, key, value)], now)

add_intermediate_result(c, step_name, result, metadata, now1, now2) ==
    update_timestamp(
        [c EXCEPT !.intermediate_results =
            Append(@, [step_name |-> step_name,
                       result |-> result,
                       timestamp |-> isoformat(now1),
                       step_number |-> Len(c.intermediate_results) + 1,
                       metadata |-> Or(metadata, <<"dict", {}>>)])],
        now2)

record_tool_execution(c, tool_name, now) ==
    update_timestamp([c EXCEPT !.executed_tools = Append(@, tool_name)], now)

record_agent_execution(c, agent_id, output, now) ==
    update_timestamp(
        [c EXCEPT !.executed_agents = Append(@, agent_id),
                  !.agent_outputs = IF output # None
                                    THEN dict_set(@, agent_id, output) ELSE @],
        now)

add_error(c, error_type, message, details, now1, now2) ==
    update_timestamp(
        [c EXCEPT !.errors =
            Append(@, [type |-> error_type,
                       message |-> message,
                       timestamp |-> isoformat(now1),
                       phase |-> c.phase[2],
                       step_count |-> c.step_count,
                       details |-> Or(details, <<"dict", {}>>)])],
        now2)

\* cancel_execution: the error is added with the phase of before
cancel_execution(c, reason, now1, now2, now3) ==
    update_timestamp(
        [add_error([c EXCEPT !.is_cancelled = TRUE], "execution_cancelled",
                   Or(reason, StrOf("Execution cancelled by user")), None,
                   now1, now2)
            EXCEPT !.phase = <<"ExecutionPhase", "error_handling">>],
        now3)

\* f"[{datetime.utcnow().isoformat()}] {message}"
add_warning(c, message, now1, now2) ==
    update_timestamp(
        [c EXCEPT !.warnings = Append(@, <<"str", isoformat(now1), message>>)],
        now2)

record_step_timing(c, step_name, duration, now) ==
    update_timestamp([c EXCEPT !.step_timings = dict_set(@, step_name, duration)],
                     now)

\* ExecutionContext.to_dict
to_dict(c) ==
    [execution_id |-> c.execution_id,
     workflow_id |-> c.workflow_id,
     agent_id |-> c.agent_id,
     user_id |-> c.user_id,
     session_id |-> c.session_id,
     created_at |-> isoformat(c.created_at),
     updated_at |-> isoformat(c.updated_at),
     phase |-> c.phase[2],
     step_count |-> c.step_count,
     is_cancelled |-> c.is_cancelled,
     shared_data |-> c.shared_data,
     intermediate_results |-> c.intermediate_results,
     executed_tools |-> c.executed_tools,
     executed_agents |-> c.executed_agents,
     agent_outputs |-> c.agent_outputs,
     errors |-> c.errors,
     warnings |-> c.warnings,
     metadata |-> c.metadata,
     config |-> c.config,
     step_timings |-> c.step_timings,
     start_time |-> IF c.start_time # None THEN isoformat(c.start_time) ELSE None,
     end_time |-> IF c.end_time # None THEN isoformat(c.end_time) ELSE None,
     run_id |-> c.run_id,
     memory |-> c.memory]

\* ExecutionContext.from_dict of a dictionary that to_dict wrote: every key
\* is there; u1, u2 and now are what the constructor generates
from_dict(data, u1, u2, now) ==
    LET made == ExecutionContext(data.workflow_id, data.agent_id, data.user_id,
                                 data.session_id, data.metadata, data.run_id,
                                 data.memory, u1, u2, now)
    IN  [made EXCEPT
            !.execution_id = data.execution_id,
            !.phase = <<"ExecutionPhase", data.phase>>,
            !.step_count = data.step_count,
            !.is_cancelled = data.is_cancelled,
            !.shared_data = data.shared_data,
            !.intermediate_results = data.intermediate_results,
            !.executed_tools = data.executed_tools,
            !.executed_agents = data.executed_agents,
            !.agent_outputs = data.agent_outputs,
            !.errors = data.errors,
            !.warnings = data.warnings,
            !.config = data.config,
            !.step_timings = data.step_timings,
            !.created_at = IF data.created_at # None
                           THEN fromisoformat(data.created_at) ELSE @,
            !.updated_at = IF data.updated_at # None
                           THEN fromisoformat(data.updated_at) ELSE @,
            !.start_time = IF data.start_time # None
                           THEN fromisoformat(data.start_time) ELSE @,
            !.end_time = IF data.end_time # None
                         THEN fromisoformat(data.end_time) ELSE @]

\* the context, the clock and the counters are as given
ContextIs(c, t, n, u) ==
    /\ ctx = c
    /\ clock = t
    /\ ctx_calls = n
    /\ uuids = u

\* the instants utcnow() can return once the clock has shown t
Ticks(t) == {t, t + 1}

\* the metadata and details the callers pass
Metadatas == {None, <<"dict", {<<"env", StrOf("test")>>}>>}

\* what one call of a public method of the context can make of it, with the
\* tick the last utcnow() of the call returned
MethodCalls(c, t0) ==
    UNION {
        UNION {
            { <<start_execution(c, utcnow(t1), utcnow(t2)), t2>>,
              <<end_execution(c, utcnow(t1), utcnow(t2)), t2>>,
              <<advance_phase(c, <<"ExecutionPhase", "tool_execution">>, utcnow(t1)), t1>>,
              <<advance_phase(c, <<"ExecutionPhase", "output_processing">>, utcnow(t1)), t1>>,
              <<set_shared_data(c, "key", StrOf("v1"), utcnow(t1)), t1>>,
              <<set_shared_data(c, "key", StrOf("v2"), utcnow(t1)), t1>>,
              <<record_tool_execution(c, StrOf("tool1"), utcnow(t1)), t1>>,
              <<record_agent_execution(c, "agent1", None, utcnow(t1)), t1>>,
              <<record_agent_execution(c, "agent1", StrOf("out"), utcnow(t1)), t1>>,
              <<add_warning(c, "slow", utcnow(t1), utcnow(t2)), t2>>,
              <<record_step_timing(c, "s1", 1, utcnow(t1)), t1>>,
              <<record_step_timing(c, "s1", 2, utcnow(t1)), t1>>,
              <<cancel_execution(c, StrOf(""), utcnow(t1), utcnow(t1), utcnow(t2)), t2>>,
              <<cancel_execution(c, StrOf("timeout"), utcnow(t1), utcnow(t2), utcnow(t2)), t2>> }
            \cup { <<add_intermediate_result(c, StrOf("s1"), StrOf("out"), m,
                                             utcnow(t1), utcnow(t2)), t2>> :
                   m \in Metadatas }
            \cup { <<add_error(c, "step_error", StrOf("boom"), m,
                               utcnow(t1), utcnow(t2)), t2>> :
                   m \in Metadatas }
            : t2 \in Ticks(t1) }
        : t1 \in Ticks(t0) }

\* a caller calls one of the public methods that change the context
CtxCall ==
    /\ ctx_calls < MaxCtxCalls
    /\ ctx_calls' = ctx_calls + 1
    /\ \E call \in MethodCalls(ctx, clock) :
          /\ ctx' = call[1]
          /\ clock' = call[2]
    /\ UNCHANGED uuids
    /\ UNCHANGED <<wfVars, smVars, msgVars, runVars>>

\* the context is written with to_dict and read back with from_dict, as when
\* it is persisted or sent to another process; the constructor inside
\* from_dict generates two identifiers and reads the clock
CtxRestore ==
    /\ ctx_calls < MaxCtxCalls
    /\ ctx_calls' = ctx_calls + 1
    /\ \E t \in Ticks(clock) :
          /\ ctx' = from_dict(to_dict(ctx), uuid4(uuids + 1), uuid4(uuids + 2),
                              utcnow(t))
          /\ clock' = t
    /\ uuids' = uuids + 2
    /\ UNCHANGED <<wfVars, smVars, msgVars, runVars>>

CtxNext ==
    \/ CtxCall
    \/ CtxRestore

(***************************************************************************)
(* The persistence of a run: execute_workflow_run of                        *)
(* src/src/orchestrator/celery_tasks.py and the WorkflowRun model           *)
(***************************************************************************)
\* the ids of the WorkflowRun records and of the runs asked for
RunIds == 1..MaxRunRecords

\* no row for the id in the table
NoRecord == [exists |-> FALSE, status |-> "NONE", result |-> None]

\* WorkflowRun.objects.create(...): status defaults to PENDING, result is null
WorkflowRun == [exists |-> TRUE, status |-> "PENDING", result |-> None]

\* the WorkflowExecutionResult objects execute() returns: COMPLETED with the
\* output of the last step, which JSON can encode or cannot, or FAILED with
\* the message of the error
ExecutionResults ==
    {[status |-> "COMPLETED", output |-> "json", error |-> "none"],
     [status |-> "COMPLETED", output |-> "object", error |-> "none"],
     [status |-> "FAILED", output |-> "none", error |-> "boom"]}

\* the dictionary execute_workflow_run makes of a result
serialize(result) ==
    <<"ser", [status |-> result.status, output |-> result.output,
              error |-> result.error]>>

\* a task that writes the status of the result
status_of_result(result) == result.status

\* the status execute_workflow_run writes to the record
persisted_status(result) == "COMPLETED"

\* what wr.save() can do: a JSONField cannot take a value JSON cannot
\* encode, and the database may fail
SaveOutcomes(result) ==
    IF result.output = "object" THEN {"raises"} ELSE {"saved", "raises"}

\* the tables are as given and no call has been made
RunsStored(record) ==
    /\ workflow_runs = [r \in RunIds |-> record]
    /\ run_calls = <<>>
    /\ records_file = <<>>

\* a view creates the WorkflowRun record of a run
CreateWorkflowRun ==
    /\ \E run_id \in RunIds :
          /\ ~workflow_runs[run_id].exists
          /\ workflow_runs' = [workflow_runs EXCEPT ![run_id] = WorkflowRun]
    /\ UNCHANGED <<run_calls, records_file>>
    /\ UNCHANGED <<wfVars, smVars, msgVars, ctxVars>>

\* execute_workflow_run(run_id, workflow_def, payload).  Building the
\* workflow raises for a definition without steps, with duplicate ids or
\* with a cycle.
ExecuteWorkflowRun ==
    /\ Len(run_calls) < MaxExecutions
    /\ \E run_id \in RunIds, build \in {"built", "raises"} :
        IF build = "raises"
        THEN /\ run_calls' = Append(run_calls,
                    [run_id |-> run_id, outcome |-> "raises",
                     result |-> [status |-> "NONE", output |-> "none",
                                 error |-> "none"],
                     found |-> workflow_runs[run_id].exists, saved |-> FALSE])
             /\ UNCHANGED <<workflow_runs, records_file>>
        ELSE \E result \in ExecutionResults :
             \E save \in SaveOutcomes(result), fallback_save \in {"saved", "raises"} :
                LET wr == workflow_runs[run_id]
                    persisted == wr.exists /\ save = "saved"
                IN  /\ workflow_runs' =
                          IF persisted
                          THEN [workflow_runs EXCEPT ![run_id] =
                                   [exists |-> TRUE,
                                    status |-> persisted_status(result),
                                    result |-> serialize(result)]]
                          ELSE workflow_runs
                    /\ records_file' =
                          IF ~persisted /\ fallback_save = "saved"
                          THEN Append(records_file,
                                      [run_id |-> run_id, result |-> result])
                          ELSE records_file
                    /\ run_calls' = Append(run_calls,
                          [run_id |-> run_id, outcome |-> "returns",
                           result |-> result, found |-> wr.exists,
                           saved |-> persisted])
    /\ UNCHANGED <<wfVars, smVars, msgVars, ctxVars>>

RunNext ==
    \/ CreateWorkflowRun
    \/ ExecuteWorkflowRun

(***************************************************************************)
(* Initial states and specifications                                       *)
(***************************************************************************)
\* a client holds the steps of a definition that no engine has been
\* constructed from
WorkflowAssembling(st) ==
    /\ steps = st
    /\ pc = "define"
    /\ status = "NONE"
    /\ execution_history = <<>>
    /\ input_data = None
    /\ execution_order = <<>>
    /\ batchIdx = 0
    /\ stepIdx = 0
    /\ batch_results = <<>>
    /\ step_outputs = EmptyOutputs
    /\ current_data = None
    /\ errors = <<>>
    /\ returned = NoResult
    /\ calls = 0
    /\ stepLog = <<>>
    /\ cancelledIn = 0

\* a client assembles a workflow definition
Init ==
    /\ WorkflowAssembling(<<>>)
    /\ SMConstructed(NoMachine)
    /\ BrokerCreated(<<>>)
    /\ ContextIs(None, 0, 0, 0)
    /\ RunsStored(NoRecord)

Spec == Init /\ [][WFNext]_vars

\* a state machine of the catalogue has been constructed
SMInit ==
    /\ \E d \in Catalogue : SMConstructed(d)
    /\ WorkflowAssembling(<<>>)
    /\ BrokerCreated(<<>>)
    /\ ContextIs(None, 0, 0, 0)
    /\ RunsStored(NoRecord)

SMSpec == SMInit /\ [][SMNext]_vars

\* an in-process broker has been created
MsgInit ==
    /\ BrokerCreated(<<>>)
    /\ WorkflowAssembling(<<>>)
    /\ SMConstructed(NoMachine)
    /\ ContextIs(None, 0, 0, 0)
    /\ RunsStored(NoRecord)

MsgSpec == MsgInit /\ [][MsgNext]_vars

\* an execution context has been constructed
CtxInit ==
    /\ \E ids \in {<<None, None>>, <<StrOf(""), None>>, <<StrOf("s1"), StrOf("r1")>>},
          metadata \in Metadatas, t \in {0, 1} :
          ContextIs(ExecutionContext(StrOf("wf1"), None, None, ids[1],
                                     metadata, ids[2], None,
                                     uuid4(1), uuid4(2), utcnow(t)),
                    t, 0, 2)
    /\ WorkflowAssembling(<<>>)
    /\ SMConstructed(NoMachine)
    /\ BrokerCreated(<<>>)
    /\ RunsStored(NoRecord)

CtxSpec == CtxInit /\ [][CtxNext]_vars

\* the WorkflowRun table is empty
RunInit ==
    /\ RunsStored(NoRecord)
    /\ WorkflowAssembling(<<>>)
    /\ SMConstructed(NoMachine)
    /\ BrokerCreated(<<>>)
    /\ ContextIs(None, 0, 0, 0)

RunSpec == RunInit /\ [][RunNext]_vars

\* the event loop runs a task that can go on: a consumer whose queue holds an
\* event gets it, whatever the other tasks do
MsgLiveSpec ==
    MsgInit /\ [][MsgNext]_vars /\ \A t \in Topics : WF_vars(Consume(t))

(***************************************************************************)
(* Properties of the workflow engine.                                      *)
(***************************************************************************)
\* the batches of an execution order that hold a step id
BatchesOf(order, id) ==
    {b \in 1..Len(order) : \E k \in 1..Len(order[b]) : order[b][k] = id}

\* the dependency edges of a definition, as pairs <<step id, dependency id>>
DepEdges(st) ==
    UNION {{<<st[i].id, st[i].deps[j]>> : j \in 1..Len(st[i].deps)} : i \in 1..Len(st)}

\* some step depends on itself, directly or through other steps: in a finite
\* graph that is a non-empty set of ids each of which has a dependency in the set
HasDependencyCycle(st) ==
    \E S \in SUBSET IdSet(st) :
        /\ S # {}
        /\ \A a \in S : \E e \in DepEdges(st) : e[1] = a /\ e[2] \in S

HasDuplicateIds(st) ==
    \E i \in 1..Len(st) : \E j \in 1..Len(st) : i # j /\ st[i].id = st[j].id

HasUnknownDependency(st) ==
    \E i \in 1..Len(st) : \E j \in 1..Len(st[i].deps) :
        \A k \in 1..Len(st) : st[k].id # st[i].deps[j]

\* construction failed: no engine, no batches, no run
NothingConstructed ==
    /\ pc = "rejected"
    /\ status = "NONE"
    /\ execution_order = <<>>
    /\ execution_history = <<>>
    /\ calls = 0
    /\ stepLog = <<>>

\* _build_execution_order has just returned the batches of this run
OrderComputed == pc = "loop" /\ batchIdx = 1

\* C1: in the batches computed by _build_execution_order for an accepted
\* definition, every step and each of its dependencies have a batch, and the
\* dependency's batch comes strictly before the step's batch.
C1_DependencyInEarlierBatch ==
    OrderComputed =>
        \A i \in 1..Len(steps) : \A j \in 1..Len(steps[i].deps) :
            LET ofStep == BatchesOf(execution_order, steps[i].id)
                ofDep == BatchesOf(execution_order, steps[i].deps[j])
            IN  /\ ofStep # {}
                /\ ofDep # {}
                /\ \A a \in ofStep : \A b \in ofDep : b < a

\* C1 witness: a chain of three steps has been ordered into three batches
C1_Witness ==
    /\ pc = "loop"
    /\ Len(execution_order) = 3
    /\ \E i \in 1..Len(steps) : Len(steps[i].deps) > 0

\* C2: a construction attempted on a definition whose dependency graph has a
\* cycle fails: it leaves no engine, no batches and no run, and nothing can be
\* done with the rejected definition afterwards.
C2_CycleRejectedAtConstruction ==
    [][/\ (pc = "define" /\ pc' # "define" /\ HasDependencyCycle(steps))
              => NothingConstructed'
       /\ (pc = "rejected" /\ HasDependencyCycle(steps)) => FALSE]_vars

\* C2 witness: a definition with unique ids and known dependencies was
\* rejected for its cycle
C2_Witness ==
    /\ pc = "rejected"
    /\ HasDependencyCycle(steps)
    /\ ~HasDuplicateIds(steps)
    /\ ~HasUnknownDependency(steps)
    /\ Len(steps) >= 2

\* C3: a step whose execution failed aborts the run: no step of a later batch
\* is started, and when the run is over the context's error log has an entry
\* for the step and the returned result is FAILED and carries the error.
C3_StepFailureAbortsRun ==
    \A i \in 1..Len(stepLog) :
        stepLog[i].failed =>
            /\ \A j \in 1..Len(stepLog) : j > i => stepLog[j].batch <= stepLog[i].batch
            /\ pc = "idle" =>
                   /\ \E k \in 1..Len(errors) :
                          /\ errors[k].type = "step_execution_error"
                          /\ errors[k].message[2] = stepLog[i].id
                   /\ returned.status = "FAILED"
                   /\ returned.error # <<"none", 0>>

\* C4: when a call of execute() is over it has returned a result whose status
\* is COMPLETED or FAILED (FAILED when the run was aborted by a cancellation),
\* and that result is the one entry the call added to execution_history.
C4_ExecuteReturnsTerminalResult ==
    /\ pc \in {"started", "loop", "batch"} => Len(execution_history) = calls - 1
    /\ (pc = "idle" /\ calls > 0) =>
           /\ returned.status \in {"COMPLETED", "FAILED"}
           /\ returned.error = <<"cancelled", 0>> => returned.status = "FAILED"
           /\ returned.execution_id = calls
           /\ Len(execution_history) = calls
           /\ execution_history[calls] = HistoryEntry(returned)
           /\ status = returned.status

\* C4 witness: a run aborted by an observed cancellation has returned
C4_Witness ==
    /\ pc = "idle"
    /\ calls > 0
    /\ returned.error = <<"cancelled", 0>>
    /\ stepLog # <<>>

\* the step ids started in this run
StartedIds == {stepLog[k].id : k \in 1..Len(stepLog)}

\* C5: when cancel_execution() succeeded while a batch was in flight, no step
\* of a later batch is started, and once that batch is over every step of it
\* has executed.
C5_CancelledBatchRunsToCompletion ==
    cancelledIn > 0 =>
        /\ \A k \in 1..Len(stepLog) : stepLog[k].batch <= cancelledIn
        /\ (pc \in {"loop", "idle"}) =>
               \A k \in 1..Len(execution_order[cancelledIn]) :
                   execution_order[cancelledIn][k] \in StartedIds

\* the position in the definition of the step with this id
StepsWithId(id) == {i \in 1..Len(steps) : steps[i].id = id}

\* C6: every step started in a run was given the workflow's input when it has
\* no dependencies, and otherwise the output of its last-listed dependency,
\* which ran before it.
C6_StepInputFromLastDependency ==
    \A k \in 1..Len(stepLog) : \A i \in StepsWithId(stepLog[k].id) :
        IF Len(steps[i].deps) = 0
        THEN stepLog[k].input = input_data
        ELSE \E d \in 1..(k - 1) :
                 /\ stepLog[d].id = steps[i].deps[Len(steps[i].deps)]
                 /\ stepLog[k].input = stepLog[d].out

\* C6 witness: a step listing two different dependencies ran on the output of
\* the second one
C6_Witness ==
    \E k \in 1..Len(stepLog) : \E i \in StepsWithId(stepLog[k].id) :
        /\ Len(steps[i].deps) = 2
        /\ steps[i].deps[1] # steps[i].deps[2]
        /\ stepLog[k].input = OutputOf(steps[i].deps[2])

\* C7: the output of a COMPLETED run is the output of the last step of the
\* last batch, which is the last step that ran.
C7_OutputOfLastStepOfLastBatch ==
    (pc = "idle" /\ returned.status = "COMPLETED") =>
        LET lastBatch == execution_order[Len(execution_order)]
            lastEntry == stepLog[Len(stepLog)]
        IN  /\ lastEntry.id = lastBatch[Len(lastBatch)]
            /\ lastEntry.batch = Len(execution_order)
            /\ returned.output = lastEntry.out

\* C7 witness: a run whose last batch holds two steps completed with the
\* second one's output
C7_Witness ==
    /\ pc = "idle"
    /\ returned.status = "COMPLETED"
    /\ Len(execution_order[Len(execution_order)]) = 2
    /\ returned.output = OutputOf(execution_order[Len(execution_order)][2])

\* a definition with no steps, with two steps of the same id, or with a
\* dependency on an id that is no step's
Malformed(st) ==
    Len(st) = 0 \/ HasDuplicateIds(st) \/ HasUnknownDependency(st)

\* C8: a construction attempted on a definition with no steps, with duplicate
\* step ids or with a dependency on an unknown id fails: it leaves no engine,
\* and no run can start on the rejected definition afterwards.
C8_MalformedDefinitionRejected ==
    [][/\ (pc = "define" /\ pc' # "define" /\ Malformed(steps))
              => NothingConstructed'
       /\ (pc = "rejected" /\ Malformed(steps)) => FALSE]_vars

\* C8 witness: a definition was rejected for nothing but its duplicate ids
C8_Witness ==
    /\ pc = "rejected"
    /\ HasDuplicateIds(steps)
    /\ ~HasUnknownDependency(steps)
    /\ ~HasDependencyCycle(steps)

(***************************************************************************)
(* Properties of the state machine executor.                               *)
(***************************************************************************)
\* the places of the trace of the last call where a call of _enter_state
\* for a state of this type returned
EntriesCompleted(state_type) ==
    {k \in 1..Len(lastOp.trace) :
        /\ lastOp.trace[k].kind = "entered"
        /\ StateOf(definition, lastOp.trace[k].id).state_type = state_type}

\* the place where the call of _enter_state that returned at place k began
EntryBegun(k) ==
    CHOOSE b \in 1..k :
        /\ lastOp.trace[b].kind = "enter"
        /\ lastOp.trace[b].id = lastOp.trace[k].id
        /\ \A c \in (b + 1)..k :
               ~(lastOp.trace[c].kind = "enter" /\ lastOp.trace[c].id = lastOp.trace[k].id)

\* C9: whenever the entry of a COMPOSITE state that declares an initial
\* substate completes, in start() or in a fired transition, that initial
\* substate is in the active-state set.
C9_CompositeEntryActivatesInitial ==
    \A k \in EntriesCompleted("COMPOSITE") :
        LET state == StateOf(definition, lastOp.trace[k].id)
        IN  state.initial_state # NoId
                => state.initial_state \in lastOp.trace[k].active

\* C9 witness: a fired transition entered a composite state whose initial
\* substate was not active when the entry began and is active at its end
C9_Witness ==
    /\ lastOp.op = "send_event"
    /\ \E k \in EntriesCompleted("COMPOSITE") :
          LET state == StateOf(definition, lastOp.trace[k].id)
          IN  /\ state.initial_state # NoId
              /\ state.initial_state \notin lastOp.trace[EntryBegun(k)].active
              /\ state.initial_state \in lastOp.trace[k].active
              /\ state.initial_state \in current_states

\* the states of the regions of a parallel state
RegionStates(state) ==
    UNION {{state.regions[r][n] : n \in 1..Len(state.regions[r])} :
              r \in 1..Len(state.regions)}

\* C10: whenever the entry of a PARALLEL state completes whose N regions all
\* have states, exactly N states of its regions are active, and the first
\* state of each region is one of them.
C10_ParallelEntryActivatesOnePerRegion ==
    \A k \in EntriesCompleted("PARALLEL") :
        LET state == StateOf(definition, lastOp.trace[k].id)
            active == RegionStates(state) \cap lastOp.trace[k].active
        IN  (\A r \in 1..Len(state.regions) : Len(state.regions[r]) > 0)
                => /\ Cardinality(active) = Len(state.regions)
                   /\ \A r \in 1..Len(state.regions) : state.regions[r][1] \in active

\* the transitions of the definition that leave the state and name the event,
\* or the wildcard
Matching(d, state_id, event) ==
    {i \in 1..Len(d.transitions) :
        /\ d.transitions[i].source_state = state_id
        /\ d.transitions[i].event \in {event, "*"}}

\* the step is a call of send_event
IsSendEvent == Len(sm_history') = Len(sm_history) + 1

\* C11: a call of send_event with an event that no transition from any active
\* state matches, by name or by wildcard, returns False and leaves the
\* active-state set (and the registered activities) as it found them.
C11_UnmatchedEventChangesNothing ==
    [][(/\ IsSendEvent
        /\ \A s \in current_states : Matching(definition, s, lastOp'.event) = {})
          => /\ lastOp'.result = "False"
             /\ current_states' = current_states
             /\ running_activities' = running_activities]_vars

\* C11 witness: a machine with active states, some of them with transitions,
\* was sent an event that none of these transitions matches
C11_Witness ==
    /\ lastOp.op = "send_event"
    /\ lastOp.result = "False"
    /\ current_states # {}
    /\ \E s \in current_states : TransitionsFrom(definition, s) # <<>>
    /\ \A s \in current_states : Matching(definition, s, lastOp.event) = {}

\* the definition with every guard that raises replaced by one that returns
\* False
GuardsRaisingAsFalse(d) ==
    [d EXCEPT !.transitions =
        [i \in 1..Len(d.transitions) |->
            IF d.transitions[i].guard = "raises"
            THEN [d.transitions[i] EXCEPT !.guard = "false"]
            ELSE d.transitions[i]]]

\* the transition of the definition with this id
TransitionById(d, id) ==
    d.transitions[CHOOSE i \in 1..Len(d.transitions) : d.transitions[i].id = id]

\* what send_event returns
ResultOf(r) ==
    IF r.ms.raised THEN "raised" ELSE IF r.fired THEN "True" ELSE "False"

\* C12: a guard that raises while an event is processed has the effect of a
\* guard that returns False: every call of send_event does, and returns, what
\* it would with the raising guards replaced by false ones, so the transition
\* is skipped, nothing is raised because of the guard, and the transitions of
\* lower priority and the other active states are still served.
C12_RaisingGuardIsFalseGuard ==
    [][IsSendEvent =>
          LET r == for_each_state(GuardsRaisingAsFalse(definition), NewCall,
                                  lastOp'.order, 1, lastOp'.event, FALSE)
          IN  /\ current_states' = r.ms.cs
              /\ running_activities' = r.ms.ra
              /\ lastOp'.trace = r.ms.trace
              /\ lastOp'.result = ResultOf(r)]_vars

\* C12 witness: the guard of a matching transition raised, a transition of
\* lower priority of the same state fired, and after it a transition of
\* another active state fired for the same event
C12_Witness ==
    /\ lastOp.op = "send_event"
    /\ lastOp.result = "True"
    /\ \E k1, k2 \in 1..Len(lastOp.trace) :
          /\ k1 < k2
          /\ lastOp.trace[k1].kind = "transition"
          /\ lastOp.trace[k2].kind = "transition"
          /\ LET t1 == TransitionById(definition, lastOp.trace[k1].id)
                 t2 == TransitionById(definition, lastOp.trace[k2].id)
             IN  /\ t1.source_state # t2.source_state
                 /\ \E i \in Matching(definition, t1.source_state, lastOp.event) :
                       /\ definition.transitions[i].guard = "raises"
                       /\ definition.transitions[i].priority > t1.priority

\* C13: after a call of stop() that returned, no do-activity task is
\* registered or still going and no state is active; the call cancelled the
\* activities before it exited the first state.
C13_StopLeavesNothingRunning ==
    (lastOp.op = "stop" /\ lastOp.result = "None")
        => /\ running_activities = {}
           /\ detached_activities = {}
           /\ current_states = {}
           /\ lastOp.trace[1].kind = "activities_cleared"
           /\ \A k \in 2..Len(lastOp.trace) :
                  lastOp.trace[k].kind \in {"exit", "exit_action", "exited"}

(***************************************************************************)
(* Properties of the messaging layer.                                      *)
(***************************************************************************)
\* C14: on every topic of the in-process broker, the events the consumer has
\* received followed by the events still queued are the events published, in
\* the order of their publication: nothing is lost, doubled or overtaken,
\* whoever published and whether or not the consumer existed by then.
C14_BrokerDeliversInPublishOrder ==
    \A t \in Topics : published[t] = delivered[t] \o queues[t]

\* C14 witness: the consumer of a topic has received two different events in
\* the order of their publication, the first of them published before
\* run_worker made the consumer, the second after
C14_Witness ==
    \E t \in Topics :
        /\ backlog[t] = 1
        /\ Len(delivered[t]) = 2
        /\ delivered[t] = published[t]
        /\ delivered[t][1].run_id < delivered[t][2].run_id

HandlerRaised(t) == \E k \in 1..Len(handler_log[t]) : handler_log[t][k].raised

\* C15: once a handler has raised for an event of a topic, the consuming task
\* of the topic is still there: every event published on the topic is in the
\* end delivered to the handler, unless run_worker cancels the task first.
C15_ConsumptionSurvivesHandlerFailure ==
    \A t \in Topics :
        (HandlerRaised(t) /\ queues[t] # <<>>)
            ~> (Len(handler_log[t]) = Len(published[t]) \/ tasks[t] = "cancelled")

\* C15 witness: the handler raised for the first event of a topic and was
\* called for the next event, published after that, with the task running
C15_Witness ==
    \E t \in Topics :
        /\ Len(handler_log[t]) = 2
        /\ handler_log[t][1].raised
        /\ ~handler_log[t][2].raised
        /\ delivered[t] = published[t]
        /\ tasks[t] = "running"

\* the calls of execute_workflow_run the worker made for a run
WorkerCallsFor(run_id) ==
    {i \in 1..Len(invocations) :
        /\ invocations[i].origin = "worker"
        /\ invocations[i].fn = "execute_workflow_run"
        /\ invocations[i].run_id = run_id}

\* C16: with the module's handler on the workflow topic, every event the
\* worker has taken from the topic has made exactly one call of
\* execute_workflow_run (through delay or directly), with the event's run_id,
\* the definition {"id": workflow_id} and the event's payload; an event not
\* yet taken has made none.
C16_WorkflowEventDispatchedOnce ==
    HandlerOf("workflow-requests") = "module" =>
        /\ \A k \in 1..Len(delivered["workflow-requests"]) :
              LET ev == delivered["workflow-requests"][k]
              IN  /\ Cardinality(WorkerCallsFor(ev.run_id)) = 1
                  /\ \A i \in WorkerCallsFor(ev.run_id) :
                        /\ invocations[i].arg = <<"id", ev.id>>
                        /\ invocations[i].payload = ev.payload
        /\ \A k \in 1..Len(queues["workflow-requests"]) :
              WorkerCallsFor(queues["workflow-requests"][k].run_id) = {}

\* C16 witness: an event published on the workflow topic while the worker
\* was running has been taken and dispatched
C16_Witness ==
    /\ HandlerOf("workflow-requests") = "module"
    /\ tasks["workflow-requests"] = "running"
    /\ backlog["workflow-requests"] = 0
    /\ Len(delivered["workflow-requests"]) = 2
    /\ \E i \in WorkerCallsFor(delivered["workflow-requests"][2].run_id) :
          invocations[i].via = "direct"

\* the calls of an execution function an adapter made for a run
AdapterCallsFor(fn, run_id) ==
    {i \in 1..Len(invocations) :
        /\ invocations[i].origin = "adapter"
        /\ invocations[i].fn = fn
        /\ invocations[i].run_id = run_id}

\* C17: a call of enqueue_workflow_run whose publishing raised has returned
\* None to its caller and has called execute_workflow_run once, through delay
\* or directly, with its own run_id, the definition {"id": workflow_id} and
\* its own payload.
C17_PublishFailureFallsBackToExecution ==
    \A k \in 1..Len(adapter_calls) :
        LET c == adapter_calls[k]
        IN  (c.fn = "enqueue_workflow_run" /\ ~c.published) =>
                /\ c.returned = "None"
                /\ Cardinality(AdapterCallsFor("execute_workflow_run", c.run_id)) = 1
                /\ \A i \in AdapterCallsFor("execute_workflow_run", c.run_id) :
                      /\ invocations[i].arg = <<"id", c.id>>
                      /\ invocations[i].payload = c.payload

\* C17 witness: publishing raised, delay raised too, and the function was
\* called directly and returned
C17_Witness ==
    \E k \in 1..Len(adapter_calls) :
        /\ adapter_calls[k].fn = "enqueue_workflow_run"
        /\ ~adapter_calls[k].published
        /\ \E i \in AdapterCallsFor("execute_workflow_run", adapter_calls[k].run_id) :
              invocations[i].via = "direct" /\ invocations[i].outcome = "returns"

\* the run of a call of an adapter was handed over: Celery took the task, or
\* the execution function was called from the adapter and returned
HandedOver(c) ==
    \E i \in 1..Len(invocations) :
        /\ invocations[i].origin = "adapter"
        /\ invocations[i].run_id = c.run_id
        /\ invocations[i].outcome \in {"queued", "returns"}

\* C18: for every call of enqueue_workflow_run or enqueue_agent_run that
\* returned, the run-request event was published or the execution function
\* was called from the adapter and completed.
C18_NoSilentDrop ==
    \A k \in 1..Len(adapter_calls) :
        adapter_calls[k].returned = "None" =>
            adapter_calls[k].published \/ HandedOver(adapter_calls[k])

(***************************************************************************)
(* Properties of the execution context.                                    *)
(***************************************************************************)
\* C19: for every context the public methods can produce, the dictionary of
\* the context read back from its dictionary is that dictionary again,
\* whatever identifiers and instant the constructor inside from_dict draws.
C19_SerializationRoundTrips ==
    \A t \in Ticks(clock) :
        to_dict(from_dict(to_dict(ctx), uuid4(uuids + 1), uuid4(uuids + 2),
                          utcnow(t)))
            = to_dict(ctx)

\* C19 witness: a context created at an instant with microseconds, cancelled
\* and started, has been written and read back once
C19_Witness ==
    /\ uuids = 4
    /\ ctx.created_at[3] # 0
    /\ ctx.is_cancelled
    /\ Len(ctx.errors) = 1
    /\ ctx.execution_id = uuid4(1)
    /\ ctx.phase = <<"ExecutionPhase", "error_handling">>

(***************************************************************************)
(* Properties of the persistence of runs.                                  *)
(***************************************************************************)
IsExecute == Len(run_calls') = Len(run_calls) + 1

LastCall == run_calls'[Len(run_calls')]

\* the record of the run of the last call holds the result of the call
RecordHolds(call) ==
    /\ workflow_runs'[call.run_id].result = serialize(call.result)
    /\ workflow_runs'[call.run_id].status = "COMPLETED"

\* C20 as stated: when execute_workflow_run returns for a run whose record
\* exists, the record holds the serialized result and the status COMPLETED.
C20_ReturnedRunIsRecorded ==
    [][(IsExecute /\ LastCall.outcome = "returns" /\ LastCall.found)
          => RecordHolds(LastCall)]_vars

\* C20 amended: when execute_workflow_run returns for a run whose record
\* exists and the save of the record did not raise, the record holds the
\* serialized result and the status COMPLETED, whatever the status of the
\* result; when the save raised, the record is as it was before the call.
C20_SavedRunIsRecorded ==
    [][(IsExecute /\ LastCall.outcome = "returns" /\ LastCall.found)
          => IF LastCall.saved
             THEN RecordHolds(LastCall)
             ELSE workflow_runs' = workflow_runs]_vars

\* C20 witness: a run that ended FAILED is recorded as COMPLETED, with the
\* FAILED result in the record
C20_Witness ==
    /\ run_calls # <<>>
    /\ LET call == run_calls[Len(run_calls)]
       IN  /\ call.outcome = "returns"
           /\ call.saved
           /\ call.result.status = "FAILED"
           /\ workflow_runs[call.run_id].status = "COMPLETED"
           /\ workflow_runs[call.run_id].result = serialize(call.result)

\* the transitions a call fired: the places of its trace where
\* _execute_transition began
Fired(trace) == {k \in 1..Len(trace) : trace[k].kind = "transition"}

\* C21: during send_event a transition fires only from a state that is active
\* at the moment it fires: a state exited earlier while the same event was
\* processed fires no transition for that event
C21_FiresOnlyFromActiveState ==
    lastOp.op = "send_event" =>
       \A k \in Fired(lastOp.trace) :
          TransitionById(definition, lastOp.trace[k].id).source_state
             \in lastOp.trace[k].active

\* the active COMPOSITE states none of whose substates is active
HollowComposites ==
    {s \in current_states :
        /\ HasState(definition, s)
        /\ StateOf(definition, s).state_type = "COMPOSITE"
        /\ \A k \in 1..Len(StateOf(definition, s).substates) :
              StateOf(definition, s).substates[k] \notin current_states}

\* C22: after start() and any sequence of send_event calls, an active
\* COMPOSITE state has an active substate
C22_ActiveCompositeHasActiveSubstate ==
    lastOp.op \in {"start", "send_event"} => HollowComposites = {}

\* the places of the definition's list that hold the transition a trace entry
\* names, fired by the event
FiredAt(d, id, event) ==
    {i \in 1..Len(d.transitions) :
        /\ d.transitions[i].id = id
        /\ d.transitions[i].event \in {event, "*"}
        /\ GuardPasses(d.transitions[i].guard)}

\* the places of a call's trace where a transition of the state fired
FiredFrom(d, trace, event, state_id) ==
    {k \in Fired(trace) :
        \E i \in FiredAt(d, trace[k].id, event) :
           d.transitions[i].source_state = state_id}

\* C24: for one event and one state of the snapshot at most one transition
\* fires; it matches the event (by name or wildcard), its guard is absent or
\* true, and every matching transition of the state of higher priority has a
\* guard that is false or raises.  A call that raises nothing fires one for
\* every state that has such a transition.
C24_HighestPriorityPassingTransitionFires ==
    [][IsSendEvent =>
          /\ \A k \in Fired(lastOp'.trace) :
                FiredAt(definition, lastOp'.trace[k].id, lastOp'.event) # {}
          /\ \A s \in current_states :
                LET fired == FiredFrom(definition, lastOp'.trace, lastOp'.event, s)
                    passing == {i \in Matching(definition, s, lastOp'.event) :
                                   definition.transitions[i].guard \in {"none", "true"}}
                IN  /\ Cardinality(fired) <= 1
                    /\ (lastOp'.result # "raised" /\ passing # {})
                          => Cardinality(fired) = 1
                    /\ \A k \in fired :
                       \E i \in FiredAt(definition, lastOp'.trace[k].id, lastOp'.event) :
                          /\ i \in passing
                          /\ \A j \in Matching(definition, s, lastOp'.event) :
                                definition.transitions[j].priority
                                      > definition.transitions[i].priority
                                   => definition.transitions[j].guard
                                         \in {"false", "raises"}]_vars

\* C24 witness: the event matched two transitions of one active state whose
\* guards pass, and the one listed later, of higher priority, fired alone
C24_Witness ==
    /\ lastOp.op = "send_event"
    /\ \E i, j \in 1..Len(definition.transitions) :
          /\ i < j
          /\ definition.transitions[i].source_state
                = definition.transitions[j].source_state
          /\ definition.transitions[i].event = lastOp.event
          /\ definition.transitions[j].event = lastOp.event
          /\ GuardPasses(definition.transitions[i].guard)
          /\ GuardPasses(definition.transitions[j].guard)
          /\ definition.transitions[i].priority < definition.transitions[j].priority
          /\ {lastOp.trace[k].id : k \in Fired(lastOp.trace)}
                = {definition.transitions[j].id}

\* the part of a call's trace that one fired transition wrote: from the place
\* where it began to the place before the next one began
SegmentOf(trace, k) ==
    {j \in k..Len(trace) : \A i \in (k + 1)..j : trace[i].kind # "transition"}

ExitKinds == {"exit", "activity_cancelled", "exit_action", "exited"}

EnterKinds ==
    {"enter", "entry_action", "activity_started", "activity_replaced", "entered"}

\* C25: when a transition fires, the exit of the source (its exit action and
\* its removal from the active states) is complete before the transition
\* action runs, and the transition action is complete before the target is
\* added to the active states and its entry action runs
C25_ExitThenActionThenEntry ==
    \A k \in Fired(lastOp.trace) :
       LET trace == lastOp.trace
           t == TransitionById(definition, trace[k].id)
       IN  \A i, j \in SegmentOf(trace, k) :
              /\ (trace[i].kind \in ExitKinds /\ trace[j].kind = "transition_action")
                    => i < j
              /\ (trace[i].kind = "transition_action" /\ trace[j].kind \in EnterKinds)
                    => i < j
              /\ (trace[i].kind \in ExitKinds /\ trace[j].kind \in EnterKinds)
                    => i < j
              /\ trace[i].kind = "transition_action"
                    => t.source_state \notin trace[i].active

\* C25 witness: a transition with an action fired from a state with an exit
\* action to a state with an entry action, and the three ran in that order
C25_Witness ==
    /\ lastOp.op = "send_event"
    /\ \E k \in Fired(lastOp.trace) :
       \E i, j, l \in SegmentOf(lastOp.trace, k) :
          LET t == TransitionById(definition, lastOp.trace[k].id)
          IN  /\ i < j /\ j < l
              /\ lastOp.trace[i].kind = "exit_action"
              /\ lastOp.trace[i].id = t.source_state
              /\ lastOp.trace[j].kind = "transition_action"
              /\ lastOp.trace[l].kind = "entry_action"
              /\ lastOp.trace[l].id = t.target_state
              /\ t.target_state \notin lastOp.trace[j].active
              /\ t.target_state \in current_states

\* the states that the exit of a state exits with it
NestedStates(state) ==
    IF state.state_type = "COMPOSITE"
    THEN {state.substates[n] : n \in 1..Len(state.substates)}
    ELSE IF state.state_type = "PARALLEL" THEN RegionStates(state)
    ELSE {}

\* the exits that a call completed: the place where the exit began and the
\* place where the state was removed
ExitsCompleted(trace) ==
    {ij \in (1..Len(trace)) \X (1..Len(trace)) :
        /\ ij[1] < ij[2]
        /\ trace[ij[1]].kind = "exit"
        /\ trace[ij[2]].kind = "exited"
        /\ trace[ij[1]].id = trace[ij[2]].id
        /\ \A m \in (ij[1] + 1)..(ij[2] - 1) :
              trace[m].id = trace[ij[1]].id => trace[m].kind \notin {"exit", "exited"}}

\* the exit of a state leaves neither it nor a state nested in it active, and
\* exits the nested states before the state's own exit action runs
NestedExitedFirst ==
    \A ij \in ExitsCompleted(lastOp.trace) :
       LET trace == lastOp.trace
           state == StateOf(definition, trace[ij[1]].id)
       IN  /\ state.id \notin trace[ij[2]].active
           /\ NestedStates(state) \cap trace[ij[2]].active = {}
           /\ \A m, n \in ij[1]..ij[2] :
                 (/\ trace[m].id \in NestedStates(state) \ {state.id}
                  /\ trace[m].kind \in ExitKinds
                  /\ trace[n].kind = "exit_action"
                  /\ trace[n].id = state.id)
                    => m < n

\* a state that a call exited has no do activity left running
ActivityStoppedAtExit ==
    \A ij \in ExitsCompleted(lastOp.trace) :
       LET id == lastOp.trace[ij[1]].id
       IN  id \notin current_states
              => id \notin running_activities \cup detached_activities

\* C26: the exit of a COMPOSITE or PARALLEL state exits every active substate
\* or region state before the state's own exit action runs, so that after it
\* neither the state nor any of them is active; and the do activity of a
\* state is cancelled before the state's exit action runs
C26_ExitIsHierarchicalAndStopsActivity ==
    NestedExitedFirst /\ ActivityStoppedAtExit

\* the call fired a transition whose action raised or whose target is not a
\* state of the definition: the place of the trace where that transition began
FailedTransition(d, trace) ==
    {k \in Fired(trace) :
        LET n == Len(trace)
            t == TransitionById(d, trace[k].id)
        IN  /\ n \in SegmentOf(trace, k)
            /\ trace[n].kind = "raise"
            /\ \/ /\ trace[n - 1].kind = "transition_action"
                  /\ trace[n].id = t.id
               \/ /\ ~HasState(d, t.target_state)
                  /\ trace[n].id = t.target_state
                  /\ trace[n - 1].kind \notin {"entry_action", "exit_action",
                                               "transition_action"}}

\* C30 as stated: when the action of a fired transition raises, or its target
\* is not a state, send_event propagates the exception and leaves the source
\* exited and removed from the active states and the target not active
C30_FailedTransitionLeavesTargetInactive ==
    [][IsSendEvent =>
          \A k \in FailedTransition(definition, lastOp'.trace) :
             LET t == TransitionById(definition, lastOp'.trace[k].id)
             IN  /\ lastOp'.result = "raised"
                 /\ t.source_state \notin current_states'
                 /\ t.target_state \notin current_states']_vars

\* C30, amended: the exception is propagated, the source is left exited and
\* removed, nothing is put back, and the target is not entered: it is active
\* afterwards only if it was active, as another state than the source, when
\* the transition fired
C30_FailedTransitionIsNotRolledBack ==
    [][IsSendEvent =>
          \A k \in FailedTransition(definition, lastOp'.trace) :
             LET trace == lastOp'.trace
                 t == TransitionById(definition, trace[k].id)
             IN  /\ lastOp'.result = "raised"
                 /\ t.source_state \notin current_states'
                 /\ current_states' = trace[k].active \ {s \in trace[k].active :
                       \E j \in SegmentOf(trace, k) :
                          trace[j].kind = "exited" /\ trace[j].id = s}
                 /\ \A j \in SegmentOf(trace, k) :
                       trace[j].kind \in EnterKinds => trace[j].id # t.target_state
                 /\ t.target_state \in current_states'
                       => t.target_state \in trace[k].active \ {t.source_state}]_vars

\* C30 witness: the action of a transition raised after the exit of its
\* active source, and the call left neither the source nor the target active
C30_Witness ==
    /\ lastOp.op = "send_event"
    /\ lastOp.result = "raised"
    /\ \E k \in FailedTransition(definition, lastOp.trace) :
          LET t == TransitionById(definition, lastOp.trace[k].id)
          IN  /\ t.action = "raises"
              /\ t.source_state \in lastOp.trace[k].active
              /\ t.source_state \notin current_states
              /\ t.target_state \notin current_states

\* the step makes the state active
Activates(state_id) ==
    state_id \notin current_states /\ state_id \in current_states'

\* what a step on the machine of create_approval_state_machine may do: leave
\* one state active, when it is start() or an event sent to a machine that
\* was started and not stopped since (only then is any state active); with requires_approval true, activate 'completed' only
\* by 'finalize' in 'approved', and 'approved' only by an approval_response
\* with a true approved flag in 'pending_approval'; activate 'rejected' only
\* by an approval_response whose approved flag is false or absent
ApprovalStep ==
    /\ (lastOp'.op = "start" \/ (IsSendEvent /\ current_states # {}))
          => (Cardinality(current_states') = 1)
    /\ (definition = Approval(TRUE) /\ Activates("completed"))
          => (/\ IsSendEvent
              /\ lastOp'.event = "finalize"
              /\ current_states = {"approved"})
    /\ (definition = Approval(TRUE) /\ Activates("approved"))
          => (/\ IsSendEvent
              /\ lastOp'.event = Approved
              /\ current_states = {"pending_approval"})
    /\ (definition = Approval(TRUE) /\ "completed" \in current_states')
          => (\E i, j \in 1..Len(sm_history') :
                 /\ i < j
                 /\ sm_history'[i] = Approved
                 /\ sm_history'[j] = "finalize")
    /\ Activates("rejected")
          => (/\ IsSendEvent
              /\ lastOp'.event = NotApproved
              /\ current_states = {"pending_approval"})

\* C29: in the machine of create_approval_state_machine, after start() and
\* any sequence of events exactly one state is active; when requires_approval
\* is true, 'completed' never becomes active unless an approval_response with
\* approved=true was processed in 'pending_approval', followed by 'finalize';
\* 'rejected' becomes active only by an approval_response whose approved flag
\* is false or absent
C29_ApprovalGatesCompletion ==
    [][(definition \in {Approval(TRUE), Approval(FALSE)}) => ApprovalStep]_vars

\* C29 witness: with requires_approval true the machine is completed, after an
\* approved response and finalize
C29_Witness ==
    /\ definition = Approval(TRUE)
    /\ current_states = {"completed"}
    /\ sm_history = <<"start", "processed", Approved, "finalize">>

\* the greatest of a non-empty set of numbers
Greatest(S) == CHOOSE m \in S : \A n \in S : n <= m

\* the number of predecessors on the longest chain of dependencies that leads
\* to the step, over chains of at most n predecessors
RECURSIVE LongestChain(_, _, _)
LongestChain(st, id, n) ==
    LET deps == {e[2] : e \in {d \in DepEdges(st) : d[1] = id}}
    IN  IF n = 0 \/ deps = {} THEN 0
        ELSE 1 + Greatest({LongestChain(st, dep, n - 1) : dep \in deps})

\* how many times the batches name the step
Placements(order, id) ==
    {bk \in (1..Len(order)) \X (1..MaxSteps) :
        bk[2] <= Len(order[bk[1]]) /\ order[bk[1]][bk[2]] = id}

\* C27: the batches computed for a valid definition name every step exactly
\* once, and a step is in batch k (counted from 0) exactly when the longest
\* chain of dependencies leading to it has k predecessors
C27_BatchIsLongestChain ==
    OrderComputed =>
       \A i \in 1..Len(steps) :
          /\ Cardinality(Placements(execution_order, steps[i].id)) = 1
          /\ BatchesOf(execution_order, steps[i].id)
                = {LongestChain(steps, steps[i].id, Len(steps)) + 1}

\* C27 witness: two steps that depend only on a third one share the second
\* batch, after the batch of that step
C27_Witness ==
    /\ OrderComputed
    /\ Len(steps) = 3
    /\ Len(execution_order) = 2
    /\ Len(execution_order[1]) = 1
    /\ Len(execution_order[2]) = 2
    /\ \A i \in 1..Len(steps) :
          steps[i].id # execution_order[1][1]
             => /\ Len(steps[i].deps) > 0
                /\ \A j \in 1..Len(steps[i].deps) :
                      steps[i].deps[j] = execution_order[1][1]

\* the steps of a batch that have been started: a step is started when its
\* coroutine is first awaited, and the await returns when it has settled
StartedOf(b) == {stepLog[m].id : m \in {n \in 1..Len(stepLog) : stepLog[n].batch = b}}

\* C23: within one batch all steps are dispatched concurrently, every step
\* started before any is awaited to completion, and the batch completes only
\* when every step has settled: once a step of a batch has settled, and so
\* also once the batch is over, every step of that batch has been started
C23_BatchDispatchedConcurrently ==
    \A k \in 1..Len(stepLog) :
       \A n \in 1..Len(execution_order[stepLog[k].batch]) :
          execution_order[stepLog[k].batch][n] \in StartedOf(stepLog[k].batch)

\* what an entry of the warning log is made of: the f-string of add_warning
\* formats the time and the message, and nothing else
WarningFields(entry) == [timestamp |-> entry[2], message |-> entry[3]]

\* the fields of a log entry include the phase and the step count of the
\* context
Stamped(fields, c) ==
    /\ {"phase", "step_count"} \subseteq DOMAIN fields
    /\ fields.phase = c.phase[2]
    /\ fields.step_count = c.step_count

\* every entry a call appends to the error log records the phase and the
\* step_count in effect when the call was made
ErrorsStamped ==
    [][Len(ctx'.errors) = Len(ctx.errors) + 1
          => Stamped(ctx'.errors[Len(ctx'.errors)], ctx)]_vars

\* C28: every entry appended to the error log of the context, and every entry
\* appended to its warning log, records the phase and the step_count in
\* effect when it was recorded
C28_LogEntriesStamped ==
    [][/\ Len(ctx'.errors) = Len(ctx.errors) + 1
             => Stamped(ctx'.errors[Len(ctx'.errors)], ctx)
       /\ Len(ctx'.warnings) = Len(ctx.warnings) + 1
             => Stamped(WarningFields(ctx'.warnings[Len(ctx'.warnings)]), ctx)]_vars


====
